---- MODULE Spec2Model ----
(***************************************************************************)
(* Grant + Ledger credit engine of maoxiao/saas-starter.                   *)
(*                                                                         *)
(* The store is PostgreSQL at its default isolation level (READ COMMITTED) *)
(* accessed through drizzle: every statement reads the committed rows (and *)
(* the transaction's own writes), a write inside db.transaction is staged  *)
(* until commit, SELECT ... FOR UPDATE and UPDATE take row locks that are  *)
(* held until commit or rollback, and a statement that meets a row locked  *)
(* by another transaction waits and then re-evaluates its WHERE clause on  *)
(* the committed row version.                                              *)
(***************************************************************************)
EXTENDS Integers, Sequences, FiniteSets, TLC

VARIABLES
  grants,   \* credit_grant table: sequence of rows, the row id is its index
  logs,     \* credit_log table: sequence of rows in insertion order
  now,      \* the server clock (new Date())
  pc,       \* per client: position inside the running call
  call,     \* per client: the call's parameters
  tx,       \* per client: the open transaction (row locks, staged writes, locals)
  ret,      \* per client: outcome of the call that just finished
  ncalls,   \* number of calls started so far
  cfg,      \* the run's scope: clients, number of calls, parameter choices
  pre,      \* history: tables as they were when the client's call started
  prev,     \* history: the last call that returned, with the tables before it
  job,      \* per client: the frame of a running grantMonthlyCredits
  attribution \* user_attribution table: one row per visitorId

vars ==
  <<grants, logs, now, pc, call, tx, ret, ncalls, cfg, pre, prev, job, attribution>>

----------------------------------------------------------------------------
(* Bounds of the model *)

MaxGrants == 2
MaxCalls == 2
MaxTime == 1
MaxAmount == 2
MonthLength == 1

Procs == {"p1", "p2"}
Users == {"u1"}
EventIds == {"e1", "e2"}
SourceRefs == {"none", "s1"}
GrantTypes == {"subscription", "topup"}

NULL == 0 - 1
NONE == "none"

----------------------------------------------------------------------------
(* Types and constants: GRANT_PRIORITY, getDefaultPriority *)

PrioritySubscription == 10
PriorityTopup == 20
PriorityPromo == 35
PriorityLifetime == 50
PriorityUnknown == 100

getDefaultPriority(type) ==
  CASE type = "subscription" -> PrioritySubscription
    [] type = "lifetime" -> PriorityLifetime
    [] type = "topup" -> PriorityTopup
    [] type = "promo" -> PriorityPromo
    [] OTHER -> PriorityUnknown

Abs(x) == IF x < 0 THEN 0 - x ELSE x

Min(a, b) == IF a < b THEN a ELSE b

RECURSIVE SumAmt(_)
\* reduce((sum, g) => sum + g.balance, 0) over the selected rows
SumAmt(s) == IF s = <<>> THEN 0 ELSE Head(s).amt + SumAmt(Tail(s))

RECURSIVE SumBalance(_, _)
SumBalance(gs, S) ==
  IF S = {} THEN 0
  ELSE LET i == CHOOSE j \in S : TRUE IN gs[i].balance + SumBalance(gs, S \ {i})

RECURSIVE SumChange(_, _)
SumChange(ls, S) ==
  IF S = {} THEN 0
  ELSE LET i == CHOOSE j \in S : TRUE
       IN ls[i].amountChange + SumChange(ls, S \ {i})

----------------------------------------------------------------------------
(* Rows *)

NoCall ==
  [op |-> NONE, userId |-> NONE, type |-> NONE, amount |-> 0,
   expiresAt |-> NULL, effectiveAt |-> 0, sourceRef |-> NONE,
   eventId |-> NONE,
   grantId |-> 0, now |-> 0, days |-> 0, startDate |-> NULL,
   endDate |-> NULL]

EmptyWrites == [i \in {} |-> [balance |-> 0, isActive |-> TRUE]]

NoTx ==
  [locked |-> {}, gw |-> EmptyWrites, ins |-> <<>>, list |-> <<>>,
   cand |-> <<>>, remaining |-> 0, total |-> 0]

NoRet == [status |-> NONE, value |-> 0, note |-> NONE]

NoHist == [grants |-> <<>>, logs |-> <<>>]

NoPrev == [call |-> NoCall, ret |-> NoRet, grants |-> <<>>, logs |-> <<>>]

\* the empty user_attribution table
NoAttribution == [v \in {} |-> [userId |-> NONE, regPage |-> NONE,
                                regSource |-> NONE, lastSeenAt |-> 0]]

\* locals of grantMonthlyCredits: dryRun, year and month, the users still to
\* sweep, the classified groups, the group at hand and its eligible ids, the
\* counters it returns, and what it wrote to the console
NoJob ==
  [active |-> FALSE, dryRun |-> FALSE, now |-> 0, year |-> 0, month |-> 0,
   stage |-> NONE, sweep |-> <<>>, members |-> <<>>, group |-> 0, ids |-> <<>>,
   counts |-> <<0, 0, 0>>, expired |-> 0, errors |-> 0, console |-> {}]

GrantIds == DOMAIN grants

LogIds == DOMAIN logs

\* the WHERE clause without its tests on effectiveAt and expiresAt
UsableWhenActive(g, userId, t) ==
  /\ g.userId = userId
  /\ g.isActive
  /\ g.balance > 0

\* the WHERE clause of the waterfall SELECT
Usable(g, userId, t) ==
  /\ g.userId = userId
  /\ g.isActive
  /\ g.balance > 0
  /\ g.effectiveAt <= t
  /\ (g.expiresAt = NULL \/ g.expiresAt > t)

ExpiresBefore(x, y) == x # NULL /\ (y = NULL \/ x < y)

\* the ORDER BY with never-expiring grants sorted first
BeforeNullsFirst(a, b) ==
  \/ a.priority < b.priority
  \/ a.priority = b.priority /\ a.expiresAt < b.expiresAt
  \/ a.priority = b.priority /\ a.expiresAt = b.expiresAt
       /\ a.createdAt < b.createdAt

\* ORDER BY priority ASC, expiresAt ASC NULLS LAST, createdAt ASC
Before(a, b) ==
  \/ a.priority < b.priority
  \/ a.priority = b.priority /\ ExpiresBefore(a.expiresAt, b.expiresAt)
  \/ a.priority = b.priority /\ a.expiresAt = b.expiresAt
       /\ a.createdAt < b.createdAt

Perms(S) ==
  {s \in [1..Cardinality(S) -> S] :
     \A i, j \in 1..Cardinality(S) : i # j => s[i] # s[j]}

\* every row order the ORDER BY admits (rows that tie on all keys come in any order)
OrderedIds(gs, S) ==
  {s \in Perms(S) :
     \A i, j \in 1..Cardinality(S) : i < j => ~Before(gs[s[j]], gs[s[i]])}

UsableIds(gs, userId, t) == {i \in DOMAIN gs : Usable(gs[i], userId, t)}

Item(gs, i) == [id |-> i, amt |-> gs[i].balance, type |-> gs[i].type]

\* the SELECT without FOR UPDATE: no row is ever met locked
NoRowLock(p, i) == FALSE

LockedByOther(p, i) == \E q \in Procs \ {p} : i \in tx[q].locked

\* rows of credit_log with the given user, event and action
LogsOfAnyUser(ls, userId, eventId, action) ==
  {i \in DOMAIN ls : ls[i].eventId = eventId /\ ls[i].action = action}

LogsOf(ls, userId, eventId, action) ==
  {i \in DOMAIN ls : /\ ls[i].userId = userId
                     /\ ls[i].eventId = eventId
                     /\ ls[i].action = action}

LogKey(l) == <<l.eventId, l.grantId, l.action>>

\* credit_log without its unique index
NoLogIndex(ls, l) == FALSE

\* unique(eventId, creditGrantId, action); NULLs are distinct
KeyTaken(ls, l) ==
  /\ l.eventId # NONE
  /\ \E i \in DOMAIN ls : LogKey(ls[i]) = LogKey(l)

\* another open transaction has staged a row with the same key: the insert waits
KeyPending(p, l) ==
  /\ l.eventId # NONE
  /\ \E q \in Procs \ {p} :
       \E i \in DOMAIN tx[q].ins : LogKey(tx[q].ins[i]) = LogKey(l)

ApplyWrites(gs, gw) ==
  [i \in DOMAIN gs |->
     IF i \in DOMAIN gw
       THEN [gs[i] EXCEPT !.balance = gw[i].balance, !.isActive = gw[i].isActive]
       ELSE gs[i]]

Stage(gw, i, bal, active) == (i :> [balance |-> bal, isActive |-> active]) @@ gw

----------------------------------------------------------------------------
(* Initial states: a ledger holding freshly created grants (each with its  *)
(* granted row, as createGrant leaves them), all clients idle              *)

NewGrant(c) ==
  [userId |-> c.userId, type |-> c.type, amount |-> c.amount,
   balance |-> c.amount, priority |-> getDefaultPriority(c.type),
   expiresAt |-> c.expiresAt, effectiveAt |-> c.effectiveAt,
   sourceRef |-> c.sourceRef, isActive |-> TRUE, createdAt |-> c.now]

GrantedLog(c, grantId) ==
  [userId |-> c.userId, grantId |-> grantId, grantType |-> c.type,
   action |-> "granted", amountChange |-> c.amount, eventId |-> NONE,
   createdAt |-> c.now]

\* parameters of the createGrant calls that built the initial ledger
InitCalls(expiries) ==
  {[NoCall EXCEPT !.op = "createGrant", !.userId = u, !.type = type,
                  !.amount = amount, !.expiresAt = expiresAt] :
     u \in Users, type \in GrantTypes, amount \in 1..MaxAmount,
     expiresAt \in expiries}

InitWith(procs, track, maxCalls, minGrants, expiries, events, amounts, sourceRefs, delays) ==
  /\ \E k \in minGrants..MaxGrants :
       \E cs \in [1..k -> InitCalls(expiries)] :
         /\ grants = [i \in 1..k |-> NewGrant(cs[i])]
         /\ logs = [i \in 1..k |-> GrantedLog(cs[i], i)]
  /\ now = 0
  /\ pc = [p \in Procs |-> "idle"]
  /\ call = [p \in Procs |-> NoCall]
  /\ tx = [p \in Procs |-> NoTx]
  /\ ret = [p \in Procs |-> NoRet]
  /\ ncalls = 0
  /\ cfg = [procs |-> procs, track |-> track, maxCalls |-> maxCalls,
            expiries |-> expiries, events |-> events, amounts |-> amounts,
            sourceRefs |-> sourceRefs, delays |-> delays,
            callers |-> Users]
  /\ pre = [p \in Procs |-> NoHist]
  /\ prev = NoPrev
  /\ job = [p \in Procs |-> NoJob]
  /\ attribution = NoAttribution

----------------------------------------------------------------------------
(* Call frame helpers *)

\* a result is handed to the caller before anything else happens
At(p, label) == pc[p] = label /\ \A q \in Procs : pc[q] # "done"

\* a client enters a call (clients are interchangeable: the second one is
\* used only while the first is busy)
Enter(p, c, first) ==
  /\ At(p, "idle")
  /\ p \in cfg.procs
  /\ p = "p1" \/ pc["p1"] # "idle"
  /\ ncalls < cfg.maxCalls
  /\ ncalls' = ncalls + 1
  /\ pc' = [pc EXCEPT ![p] = first]
  /\ call' = [call EXCEPT ![p] = c]
  /\ tx' = [tx EXCEPT ![p] = NoTx]
  /\ ret' = [ret EXCEPT ![p] = NoRet]
  /\ pre' = [pre EXCEPT ![p] =
               IF cfg.track THEN [grants |-> grants, logs |-> logs] ELSE NoHist]
  /\ UNCHANGED <<grants, logs, now, cfg, prev, job, attribution>>

\* the call returns or throws; an open transaction is over, its locks are gone
\* (note names the return or throw statement reached, as the code's console.log does)
Finish(p, status, value, note) ==
  /\ pc' = [pc EXCEPT ![p] = "done"]
  /\ ret' = [ret EXCEPT ![p] = [status |-> status, value |-> value, note |-> note]]
  /\ tx' = [tx EXCEPT ![p] = NoTx]
  /\ UNCHANGED <<call, now, ncalls, cfg, pre, prev, job, attribution>>

\* the error leaves the writes made so far in place (no transaction)
KeepWrites(p, status) ==
  /\ Finish(p, status, 0, "thrown")
  /\ grants' = ApplyWrites(grants, tx[p].gw)
  /\ logs' = logs \o tx[p].ins

\* a thrown error inside db.transaction rolls the transaction back
Rollback(p, status) ==
  /\ Finish(p, status, 0, "thrown")
  /\ UNCHANGED <<grants, logs>>

\* a return without any write
NoOp(p, value, note) ==
  /\ Finish(p, "ok", value, note)
  /\ UNCHANGED <<grants, logs>>

\* the transaction callback returned: staged writes become visible at once
Commit(p, gw, ins, value, note) ==
  /\ grants' = ApplyWrites(grants, gw)
  /\ logs' = logs \o ins
  /\ Finish(p, "ok", value, note)

Goto(p, next, t) ==
  /\ pc' = [pc EXCEPT ![p] = next]
  /\ tx' = [tx EXCEPT ![p] = t]
  /\ UNCHANGED <<grants, logs, call, ret, now, ncalls, cfg, pre, prev, job, attribution>>

\* the caller consumes the result; the client is idle again
Return(p) ==
  /\ pc[p] = "done"
  /\ ~job[p].active
  /\ pc' = [pc EXCEPT ![p] = "idle"]
  /\ prev' = IF cfg.track
               THEN [call |-> call[p], ret |-> ret[p],
                     grants |-> pre[p].grants, logs |-> pre[p].logs]
               ELSE prev
  /\ call' = [call EXCEPT ![p] = NoCall]
  /\ ret' = [ret EXCEPT ![p] = NoRet]
  /\ pre' = [pre EXCEPT ![p] = NoHist]
  /\ job' = [job EXCEPT ![p] = NoJob]
  /\ UNCHANGED <<grants, logs, now, tx, ncalls, cfg, attribution>>

Tick ==
  /\ \A q \in Procs : pc[q] # "done"
  /\ now < MaxTime
  /\ now' = now + 1
  /\ UNCHANGED <<grants, logs, pc, call, tx, ret, ncalls, cfg, pre, prev, job, attribution>>

\* a store error or a caller-side timeout hits a transaction that has already
\* written: the error propagates out of db.transaction
HasWritten(p) ==
  \/ DOMAIN tx[p].gw # {}
  \/ tx[p].ins # <<>>
  \/ pc[p] = "cg_log"

Fail(p) ==
  /\ \A q \in Procs : pc[q] # "done"
  /\ pc[p] \notin {"idle", "done"}
  /\ HasWritten(p)
  /\ Rollback(p, "StoreError")

----------------------------------------------------------------------------
(* createGrant *)

Creating == {q \in Procs : call[q].op = "createGrant" /\ pc[q] # "done"}

StartCreateGrant(p) ==
  /\ Len(grants) + Cardinality(Creating) < MaxGrants
  /\ \E u \in Users, type \in GrantTypes, amount \in 1..MaxAmount,
        expiresAt \in cfg.expiries, delay \in cfg.delays,
        sourceRef \in cfg.sourceRefs :
       Enter(p, [NoCall EXCEPT !.op = "createGrant", !.userId = u, !.type = type,
                               !.amount = amount, !.expiresAt = expiresAt,
                               !.effectiveAt = now + delay,
                               !.sourceRef = sourceRef, !.now = now],
             "cg_check")

\* select id from credit_grant where source_ref = sourceRef limit 1
GrantBySourceRef(gs, sourceRef) == {i \in DOMAIN gs : gs[i].sourceRef = sourceRef}

\* amount guard and the idempotency pre-check, outside any transaction
CreateCheck(p) ==
  /\ At(p, "cg_check")
  /\ LET c == call[p]
         existingGrant == GrantBySourceRef(grants, c.sourceRef)
     IN IF c.amount <= 0
          THEN Rollback(p, "InvalidAmount")
          ELSE IF c.sourceRef # NONE /\ existingGrant # {}
                 THEN \E i \in existingGrant : NoOp(p, i, "already exists")
                 ELSE Goto(p, "cg_ins", tx[p])

\* another transaction has inserted the same sourceRef and not yet ended
SourceRefPending(p, sourceRef) ==
  /\ sourceRef # NONE
  /\ \E q \in Procs \ {p} : pc[q] = "cg_log" /\ call[q].sourceRef = sourceRef

\* credit_grant.source_ref without its unique index
NoUniqueIndex(gs, sourceRef) == FALSE

\* the unique index on credit_grant.source_ref rejects the row
SourceRefTaken(gs, sourceRef) ==
  sourceRef # NONE /\ GrantBySourceRef(gs, sourceRef) # {}

\* tx.insert(creditGrant)
CreateInsert(p) ==
  /\ At(p, "cg_ins")
  /\ LET c == call[p] IN
       /\ ~SourceRefPending(p, c.sourceRef)
       /\ IF SourceRefTaken(grants, c.sourceRef)
            THEN Goto(p, "cg_catch", NoTx)
            ELSE Goto(p, "cg_log", tx[p])

\* tx.insert(creditLog) and commit: grant and audit row appear together
CreateLog(p) ==
  /\ At(p, "cg_log")
  /\ LET c == call[p]
         grantId == Len(grants) + 1
     IN /\ grants' = Append(grants, NewGrant(c))
        /\ logs' = Append(logs, GrantedLog(c, grantId))
        /\ Finish(p, "ok", grantId, "created")

\* catch: a unique violation with a sourceRef resolves to the existing grant
CreateCatch(p) ==
  /\ At(p, "cg_catch")
  /\ LET c == call[p]
         existing == GrantBySourceRef(grants, c.sourceRef)
     IN IF c.sourceRef # NONE /\ existing # {}
          THEN \E i \in existing : NoOp(p, i, "caught")
          ELSE Rollback(p, "Conflict")

----------------------------------------------------------------------------
(* deductCredits *)

Range(s) == {s[k] : k \in DOMAIN s}

StartDeduct(p) ==
  \E u \in cfg.callers, amount \in cfg.amounts, e \in cfg.events :
    Enter(p, [NoCall EXCEPT !.op = "deductCredits", !.userId = u,
                            !.amount = amount, !.eventId = e, !.now = now],
          "d_idem")

\* the idempotency check looking for the wrong action
ExistingHeldOnly(ls, userId, eventId) == LogsOf(ls, userId, eventId, "held")

\* 1. idempotency check: a consumed row of this user and event
ExistingConsumed(ls, userId, eventId) == LogsOf(ls, userId, eventId, "consumed")

DeductIdem(p) ==
  /\ At(p, "d_idem")
  /\ LET c == call[p] IN
       IF c.amount <= 0
         THEN Rollback(p, "InvalidAmount")
         ELSE IF ExistingConsumed(logs, c.userId, c.eventId) # {}
                THEN NoOp(p, 0, "already consumed")
                ELSE Goto(p, "d_held", tx[p])

\* the held total summed without Math.abs
HeldSigned(ls, S) == SumChange(ls, S)

\* existingHeld.reduce((sum, log) => sum + Math.abs(log.amountChange), 0)
HeldAmount(ls, S) == 0 - SumChange(ls, S)

\* the UPDATE without ABS(amountChange)
KeepSign(ls, S, action, flip) ==
  [i \in DOMAIN ls |->
     IF i \in S THEN [ls[i] EXCEPT !.action = action] ELSE ls[i]]

\* the UPDATE taking the absolute value on confirmation instead of on release
FlipOnConfirm(ls, S, action, flip) ==
  [i \in DOMAIN ls |->
     IF i \in S
       THEN [ls[i] EXCEPT !.action = action,
                          !.amountChange = IF flip THEN @ ELSE Abs(@)]
       ELSE ls[i]]

\* UPDATE credit_log SET action = ... WHERE user, event, action = 'held'
SetAction(ls, S, action, flip) ==
  [i \in DOMAIN ls |->
     IF i \in S
       THEN [ls[i] EXCEPT !.action = action,
                          !.amountChange = IF flip THEN Abs(@) ELSE @]
       ELSE ls[i]]

\* the rewritten rows would repeat a key (eventId, creditGrantId, action)
UpdateConflict(ls, S, action) ==
  \E i \in S : \E j \in DOMAIN ls :
    /\ j # i
    /\ ls[j].eventId = ls[i].eventId
    /\ ls[j].grantId = ls[i].grantId
    /\ ls[j].action = action

\* an open transaction has staged a row with a key the update would produce
UpdatePending(p, ls, S, action) ==
  \E i \in S : KeyPending(p, [ls[i] EXCEPT !.action = action])

\* the in-place UPDATE of the event's held rows, then commit
UpdateHeld(p, action, flip, note) ==
  LET c == call[p]
      held == LogsOf(logs, c.userId, c.eventId, "held")
  IN /\ ~UpdatePending(p, logs, held, action)
     /\ IF UpdateConflict(logs, held, action)
          THEN Rollback(p, "Conflict")
          ELSE /\ logs' = SetAction(logs, held, action, flip)
               /\ grants' = ApplyWrites(grants, tx[p].gw)
               /\ Finish(p, "ok", 0, note)

\* 2. held rows of the event: the amount must match, then they are confirmed
DeductHeld(p) ==
  /\ At(p, "d_held")
  /\ LET c == call[p]
         existingHeld == LogsOf(logs, c.userId, c.eventId, "held")
     IN IF existingHeld # {}
          THEN IF HeldAmount(logs, existingHeld) # c.amount
                 THEN Rollback(p, "AmountMismatch")
                 ELSE Goto(p, "d_conf", tx[p])
          ELSE Goto(p, "d_lock", tx[p])

DeductConfirm(p) ==
  /\ At(p, "d_conf")
  /\ UpdateHeld(p, "consumed", FALSE, "auto-confirmed")

\* the sufficiency test refusing only an empty balance
EmptyOnly(totalAvailable, amount) == totalAvailable <= 0

\* if (totalAvailable < amount) throw
Insufficient(totalAvailable, amount) == totalAvailable < amount

\* SELECT ... FOR UPDATE of the usable grants in waterfall order, and the
\* sufficiency test on the locked rows; the rows met locked are awaited and
\* their WHERE clause is evaluated again on the committed version
LockUsable(p, first, wait, loop, failure) ==
  LET c == call[p] IN
  \E order \in (IF pc[p] = wait THEN {tx[p].cand}
                ELSE OrderedIds(grants, UsableIds(grants, c.userId, c.now))) :
    IF \E k \in DOMAIN order : LockedByOther(p, order[k])
      THEN /\ pc[p] = first
           /\ Goto(p, wait, [tx[p] EXCEPT !.cand = order])
      ELSE LET rows == SelectSeq(order,
                         LAMBDA i : Usable(grants[i], c.userId, c.now))
               availableGrants == [k \in DOMAIN rows |-> Item(grants, rows[k])]
               totalAvailable == SumAmt(availableGrants)
           IN IF Insufficient(totalAvailable, c.amount)
                THEN Rollback(p, failure)
                ELSE Goto(p, loop,
                          [tx[p] EXCEPT !.locked = Range(rows),
                                        !.list = availableGrants,
                                        !.remaining = c.amount,
                                        !.cand = <<>>])

\* 3. lock the usable grants
DeductLock(p) ==
  /\ At(p, "d_lock") \/ At(p, "d_wait")
  /\ LockUsable(p, "d_lock", "d_wait", "d_loop", "InsufficientCredits")

\* deductFromThis = Math.min(grant.balance, remaining); newBalance = balance - it
DeductIter(grant, remaining) ==
  LET deductFromThis == Min(grant.amt, remaining)
  IN [deductFromThis |-> deductFromThis, newBalance |-> grant.amt - deductFromThis]

\* every consumed row carrying the whole amount of the call
ConsumedWhole(c, grant, deductFromThis) ==
  [userId |-> c.userId, grantId |-> grant.id, grantType |-> grant.type,
   action |-> "consumed", amountChange |-> 0 - c.amount,
   eventId |-> c.eventId, createdAt |-> c.now]

ConsumedLog(c, grant, deductFromThis) ==
  [userId |-> c.userId, grantId |-> grant.id, grantType |-> grant.type,
   action |-> "consumed", amountChange |-> 0 - deductFromThis,
   eventId |-> c.eventId, createdAt |-> c.now]

\* one pass of a loop that updates a grant and inserts a log row; after the
\* last pass the callback returns and the transaction commits
WriteStep(p, grantId, newBalance, row, last, rest, remaining, loop, note) ==
  LET t == tx[p]
      t1 == [t EXCEPT !.gw = Stage(@, grantId, newBalance,
                                   grants[grantId].isActive),
                      !.locked = @ \cup {grantId},
                      !.ins = Append(@, row),
                      !.list = rest,
                      !.remaining = remaining]
  IN /\ ~LockedByOther(p, grantId)
     /\ ~KeyPending(p, row)
     /\ IF KeyTaken(logs \o t.ins, row)
          THEN Rollback(p, "Conflict")
          ELSE IF last
                 THEN Commit(p, t1.gw, t1.ins, 0, note)
                 ELSE Goto(p, loop, t1)

\* 4. one iteration of the waterfall loop
DeductLoop(p) ==
  /\ At(p, "d_loop")
  /\ LET grant == Head(tx[p].list)
         it == DeductIter(grant, tx[p].remaining)
         remaining == tx[p].remaining - it.deductFromThis
         rest == Tail(tx[p].list)
     IN WriteStep(p, grant.id, it.newBalance,
                  ConsumedLog(call[p], grant, it.deductFromThis),
                  remaining <= 0 \/ rest = <<>>, rest, remaining, "d_loop",
                  "deducted")

----------------------------------------------------------------------------
(* holdCredits *)

StartHold(p) ==
  \E u \in cfg.callers, amount \in cfg.amounts, e \in cfg.events :
    Enter(p, [NoCall EXCEPT !.op = "holdCredits", !.userId = u,
                            !.amount = amount, !.eventId = e, !.now = now],
          "h_idem")

\* the check of holdCredits looking for held rows only
ExistingHeldRows(ls, userId, eventId) == LogsOf(ls, userId, eventId, "held")

\* idempotency check: a held or a consumed row of this user and event
ExistingConsumedOrHeld(ls, userId, eventId) ==
  LogsOf(ls, userId, eventId, "held") \cup LogsOf(ls, userId, eventId, "consumed")

HoldIdem(p) ==
  /\ At(p, "h_idem")
  /\ LET c == call[p] IN
       IF c.amount <= 0
         THEN Rollback(p, "InvalidAmount")
         ELSE IF ExistingConsumedOrHeld(logs, c.userId, c.eventId) # {}
                THEN NoOp(p, 0, "already held or consumed")
                ELSE Goto(p, "h_lock", tx[p])

HoldLock(p) ==
  /\ At(p, "h_lock") \/ At(p, "h_wait")
  /\ LockUsable(p, "h_lock", "h_wait", "h_loop", "InsufficientCredits")

\* the loop body without Math.min
HoldWithoutMin(grant, remaining) ==
  [deductFromThis |-> remaining, newBalance |-> grant.amt - remaining]

HoldIter(grant, remaining) ==
  LET deductFromThis == Min(grant.amt, remaining)
  IN [deductFromThis |-> deductFromThis, newBalance |-> grant.amt - deductFromThis]

HeldLog(c, grant, deductFromThis) ==
  [userId |-> c.userId, grantId |-> grant.id, grantType |-> grant.type,
   action |-> "held", amountChange |-> 0 - deductFromThis,
   eventId |-> c.eventId, createdAt |-> c.now]

HoldLoop(p) ==
  /\ At(p, "h_loop")
  /\ LET grant == Head(tx[p].list)
         it == HoldIter(grant, tx[p].remaining)
         remaining == tx[p].remaining - it.deductFromThis
         rest == Tail(tx[p].list)
     IN WriteStep(p, grant.id, it.newBalance,
                  HeldLog(call[p], grant, it.deductFromThis),
                  remaining <= 0 \/ rest = <<>>, rest, remaining, "h_loop",
                  "held")

----------------------------------------------------------------------------
(* confirmHold *)

StartConfirm(p) ==
  \E u \in cfg.callers, e \in cfg.events :
    Enter(p, [NoCall EXCEPT !.op = "confirmHold", !.userId = u,
                            !.eventId = e, !.now = now],
          "c_sel")

ConfirmSelect(p) ==
  /\ At(p, "c_sel")
  /\ LET c == call[p]
         heldLogs == LogsOf(logs, c.userId, c.eventId, "held")
     IN IF heldLogs = {}
          THEN NoOp(p, 0, "no held credits")
          ELSE Goto(p, "c_upd", tx[p])

ConfirmUpdate(p) ==
  /\ At(p, "c_upd")
  /\ UpdateHeld(p, "consumed", FALSE, "confirmed")

----------------------------------------------------------------------------
(* releaseCredits, refundCredits *)

\* the selected log rows, in table order, as the loops read them
RECURSIVE LogItems(_, _, _)
LogItems(ls, S, i) ==
  IF i > Len(ls) THEN <<>>
  ELSE (IF i \in S
          THEN <<[id |-> ls[i].grantId, amt |-> Abs(ls[i].amountChange),
                  type |-> ls[i].grantType]>>
          ELSE <<>>) \o LogItems(ls, S, i + 1)

StartRelease(p) ==
  \E u \in cfg.callers, e \in cfg.events :
    Enter(p, [NoCall EXCEPT !.op = "releaseCredits", !.userId = u,
                            !.eventId = e, !.now = now],
          "r_sel")

ReleaseSelect(p) ==
  /\ At(p, "r_sel")
  /\ LET c == call[p]
         heldLogs == LogsOf(logs, c.userId, c.eventId, "held")
     IN IF heldLogs = {}
          THEN NoOp(p, 0, "no held credits")
          ELSE Goto(p, "r_loop", [tx[p] EXCEPT !.list = LogItems(logs, heldLogs, 1)])

\* the UPDATE leaving the balance as it is
RestoredNothing(gs, gw, grantId, refundAmount) ==
  IF grantId \in DOMAIN gw THEN gw[grantId].balance ELSE gs[grantId].balance

\* balance = balance + refundAmount, evaluated on the locked row
Restored(gs, gw, grantId, refundAmount) ==
  (IF grantId \in DOMAIN gw THEN gw[grantId].balance ELSE gs[grantId].balance)
    + refundAmount

\* one UPDATE of a grant per held row; after the last one the UPDATE of the
\* event's held rows to released, and commit
ReleaseLoop(p) ==
  /\ At(p, "r_loop")
  /\ LET heldLog == Head(tx[p].list)
         rest == Tail(tx[p].list)
         t1 == [tx[p] EXCEPT
                  !.gw = Stage(@, heldLog.id,
                               Restored(grants, tx[p].gw, heldLog.id, heldLog.amt),
                               grants[heldLog.id].isActive),
                  !.locked = @ \cup {heldLog.id},
                  !.list = rest]
     IN /\ ~LockedByOther(p, heldLog.id)
        /\ IF rest # <<>>
             THEN Goto(p, "r_loop", t1)
             ELSE LET c == call[p]
                      held == LogsOf(logs, c.userId, c.eventId, "held")
                  IN /\ ~UpdatePending(p, logs, held, "released")
                     /\ IF UpdateConflict(logs, held, "released")
                          THEN Rollback(p, "Conflict")
                          ELSE /\ logs' = SetAction(logs, held, "released", TRUE)
                               /\ grants' = ApplyWrites(grants, t1.gw)
                               /\ Finish(p, "ok", 0, "released")

StartRefund(p) ==
  \E u \in cfg.callers, e \in cfg.events :
    Enter(p, [NoCall EXCEPT !.op = "refundCredits", !.userId = u,
                            !.eventId = e, !.now = now],
          "f_idem")

RefundIdem(p) ==
  /\ At(p, "f_idem")
  /\ LET c == call[p] IN
       IF LogsOf(logs, c.userId, c.eventId, "refunded") # {}
         THEN NoOp(p, 0, "already refunded")
         ELSE Goto(p, "f_sel", tx[p])

\* the rows a refund reverses, taking reservations for charges
ConsumedOrHeldLogs(ls, userId, eventId) ==
  LogsOf(ls, userId, eventId, "consumed") \cup LogsOf(ls, userId, eventId, "held")

\* select the consumed rows of the original event
ConsumedLogs(ls, userId, eventId) == LogsOf(ls, userId, eventId, "consumed")

RefundSelect(p) ==
  /\ At(p, "f_sel")
  /\ LET c == call[p]
         consumedLogs == ConsumedLogs(logs, c.userId, c.eventId)
     IN IF consumedLogs = {}
          THEN Rollback(p, "NothingToRefund")
          ELSE Goto(p, "f_loop", [tx[p] EXCEPT !.list = LogItems(logs, consumedLogs, 1)])

\* the refunded row written with the sign of the consumed row
RefundedNegative(c, consumedLog) ==
  [userId |-> c.userId, grantId |-> consumedLog.id, grantType |-> consumedLog.type,
   action |-> "refunded", amountChange |-> 0 - consumedLog.amt,
   eventId |-> c.eventId, createdAt |-> c.now]

RefundedLog(c, consumedLog) ==
  [userId |-> c.userId, grantId |-> consumedLog.id, grantType |-> consumedLog.type,
   action |-> "refunded", amountChange |-> consumedLog.amt,
   eventId |-> c.eventId, createdAt |-> c.now]

RefundLoop(p) ==
  /\ At(p, "f_loop")
  /\ LET consumedLog == Head(tx[p].list)
         rest == Tail(tx[p].list)
     IN WriteStep(p, consumedLog.id,
                  Restored(grants, tx[p].gw, consumedLog.id, consumedLog.amt),
                  RefundedLog(call[p], consumedLog),
                  rest = <<>>, rest, 0, "f_loop", "refunded")

----------------------------------------------------------------------------
(* processExpiredGrants *)

StartExpire(p) ==
  \E u \in cfg.callers :
    Enter(p, [NoCall EXCEPT !.op = "processExpiredGrants", !.userId = u,
                            !.now = now],
          "x_scan")

\* the scan taking a grant for expired only after its expiry instant
ExpiredStrictly(g, userId, t) ==
  /\ g.userId = userId
  /\ g.isActive
  /\ g.balance > 0
  /\ g.expiresAt # NULL /\ g.expiresAt < t

\* the unlocked scan: active, balance > 0, expiresAt <= now
Expired(g, userId, t) ==
  /\ g.userId = userId
  /\ g.isActive
  /\ g.balance > 0
  /\ g.expiresAt # NULL /\ g.expiresAt <= t

RECURSIVE GrantItems(_, _, _)
GrantItems(gs, S, i) ==
  IF i > Len(gs) THEN <<>>
  ELSE (IF i \in S THEN <<Item(gs, i)>> ELSE <<>>) \o GrantItems(gs, S, i + 1)

ExpireScan(p) ==
  /\ At(p, "x_scan")
  /\ LET c == call[p]
         expiredGrants == {i \in DOMAIN grants : Expired(grants[i], c.userId, c.now)}
     IN IF expiredGrants = {}
          THEN NoOp(p, 0, "none expired")
          ELSE Goto(p, "x_loop",
                    [tx[p] EXCEPT !.list = GrantItems(grants, expiredGrants, 1)])

\* the expired row written with the balance instead of minus the balance
ExpiredUnsigned(c, freshGrant) ==
  [userId |-> c.userId, grantId |-> freshGrant.id, grantType |-> freshGrant.type,
   action |-> "expired", amountChange |-> freshGrant.amt, eventId |-> NONE,
   createdAt |-> c.now]

ExpiredLog(c, freshGrant) ==
  [userId |-> c.userId, grantId |-> freshGrant.id, grantType |-> freshGrant.type,
   action |-> "expired", amountChange |-> 0 - freshGrant.amt, eventId |-> NONE,
   createdAt |-> c.now]

\* the loop working on the row as the unlocked scan returned it
ScannedGrant(gs, grant) == grant

\* re-fetch with row lock to get the fresh balance
FreshGrant(gs, grant) == Item(gs, grant.id)

\* one pass: re-read the grant FOR UPDATE, skip it when drained, else zero it and
\* stage its expired row; after the last pass the batch insert and the commit
ExpireLoop(p) ==
  /\ At(p, "x_loop")
  /\ LET grant == Head(tx[p].list)
         rest == Tail(tx[p].list)
         freshGrant == FreshGrant(grants, grant)
         skip == freshGrant.amt <= 0
         t1 == IF skip
                 THEN [tx[p] EXCEPT !.locked = @ \cup {grant.id}, !.list = rest]
                 ELSE [tx[p] EXCEPT
                         !.locked = @ \cup {grant.id},
                         !.gw = Stage(@, grant.id, 0, grants[grant.id].isActive),
                         !.ins = Append(@, ExpiredLog(call[p], freshGrant)),
                         !.total = @ + freshGrant.amt,
                         !.list = rest]
     IN /\ ~LockedByOther(p, grant.id)
        /\ IF rest = <<>>
             THEN Commit(p, t1.gw, t1.ins, t1.total, "expired")
             ELSE Goto(p, "x_loop", t1)

----------------------------------------------------------------------------
(* revokeGrant *)

StartRevoke(p) ==
  \E grantId \in 1..MaxGrants :
    Enter(p, [NoCall EXCEPT !.op = "revokeGrant", !.grantId = grantId,
                            !.now = now],
          "v_lock")

\* select the grant FOR UPDATE; zero and deactivate it
RevokeLock(p) ==
  /\ At(p, "v_lock")
  /\ LET c == call[p] IN
       IF c.grantId \notin DOMAIN grants
         THEN Rollback(p, "NotFound")
         ELSE /\ ~LockedByOther(p, c.grantId)
              /\ LET revokedAmount == grants[c.grantId].balance IN
                   IF revokedAmount > 0
                     THEN Goto(p, "v_log",
                               [tx[p] EXCEPT !.locked = {c.grantId},
                                             !.gw = Stage(@, c.grantId, 0, FALSE),
                                             !.total = revokedAmount])
                     ELSE Commit(p, Stage(EmptyWrites, c.grantId, revokedAmount, FALSE),
                                 <<>>, revokedAmount, "deactivated")

\* the revoked row written with the amount instead of minus the amount
RevokedPositive(grant, grantId, revokedAmount, createdAt) ==
  [userId |-> grant.userId, grantId |-> grantId, grantType |-> grant.type,
   action |-> "revoked", amountChange |-> revokedAmount, eventId |-> NONE,
   createdAt |-> createdAt]

RevokedLog(grant, grantId, revokedAmount, createdAt) ==
  [userId |-> grant.userId, grantId |-> grantId, grantType |-> grant.type,
   action |-> "revoked", amountChange |-> 0 - revokedAmount, eventId |-> NONE,
   createdAt |-> createdAt]

\* insert the revoked row and commit
RevokeLog(p) ==
  /\ At(p, "v_log")
  /\ LET c == call[p] IN
       Commit(p, tx[p].gw,
              <<RevokedLog(grants[c.grantId], c.grantId, tx[p].total, c.now)>>,
              tx[p].total, "revoked")

----------------------------------------------------------------------------
(* deactivateGrant *)

StartDeactivate(p) ==
  \E grantId \in 1..MaxGrants :
    Enter(p, [NoCall EXCEPT !.op = "deactivateGrant", !.grantId = grantId,
                            !.now = now],
          "da_upd")

\* the UPDATE clearing the balance as well
DeactivateAndEmpty(gs, grantId) == Stage(EmptyWrites, grantId, 0, FALSE)

\* .set({ isActive: false }): the balance column is not assigned
DeactivateSet(gs, grantId) ==
  Stage(EmptyWrites, grantId, gs[grantId].balance, FALSE)

\* UPDATE credit_grant SET is_active = false WHERE id = grantId, one
\* statement outside any transaction; it waits for the row lock
DeactivateUpdate(p) ==
  /\ At(p, "da_upd")
  /\ LET c == call[p] IN
       IF c.grantId \notin DOMAIN grants
         THEN NoOp(p, 0, "no row")
         ELSE /\ ~LockedByOther(p, c.grantId)
              /\ Commit(p, DeactivateSet(grants, c.grantId), <<>>, 0,
                        "inactive")

----------------------------------------------------------------------------
(* grantMonthlyCredits: the monthly job. The user and payment tables and   *)
(* the price plan configuration are read-only here (cfg.users, cfg.credits:*)
(* every plan has credits enabled); the job calls processExpiredGrants and *)
(* createGrant, whose steps are the ones above                             *)

\* now.getFullYear() and now.getMonth() + 1, the clock counting MonthLength
\* ticks per calendar month
YearOf(t) == (t \div MonthLength) \div 12

MonthOf(t) == ((t \div MonthLength) % 12) + 1

\* String(month).padStart(2, '0')
Pad2(n) == IF n < 10 THEN "0" \o ToString(n) ELSE ToString(n)

\* batchGrant passing no sourceRef to createGrant
JobRefNone(prefix, uid, year, month) == NONE

\* `${prefix}_${uid}_${year}_${MM}`
JobRef(prefix, uid, year, month) ==
  prefix \o "_" \o uid \o "_" \o ToString(year) \o "_" \o Pad2(month)

\* the three batches in the order the job runs them
JobGroups ==
  << [name |-> "free", type |-> "promo", prefix |-> "monthly_free"],
     [name |-> "lifetime", type |-> "lifetime", prefix |-> "monthly_lifetime"],
     [name |-> "yearly", type |-> "subscription", prefix |-> "monthly_yearly"] >>

\* a user row joined with the latest paid payment: no payment is the free
\* group, a lifetime price the lifetime group, a yearly price the yearly group,
\* a monthly price no group
UserRows ==
  {[banned |-> FALSE, plan |-> x] : x \in {"free", "lifetime", "yearly", "monthly"}}
    \cup {[banned |-> TRUE, plan |-> "free"]}

\* users that are not banned, classified by their plan
GroupMembers(users, name) ==
  {u \in DOMAIN users : ~users[u].banned /\ users[u].plan = name}

\* users among userIds with a grant of the type created in the month
getUsersWithGrantThisMonth(gs, userIds, type, year, month) ==
  {gs[i].userId : i \in {k \in DOMAIN gs : /\ gs[k].userId \in userIds
                                           /\ gs[k].type = type
                                           /\ YearOf(gs[k].createdAt) = year
                                           /\ MonthOf(gs[k].createdAt) = month}}

\* users with an active grant that holds balance past its expiry
usersWithExpiredGrants(gs, t) ==
  {gs[i].userId : i \in {k \in DOMAIN gs : /\ gs[k].isActive
                                           /\ gs[k].balance > 0
                                           /\ gs[k].expiresAt # NULL
                                           /\ gs[k].expiresAt <= t}}

JobCall(j) == [NoCall EXCEPT !.op = "grantMonthlyCredits", !.now = j.now]

\* the job moves on within its own code
JobGoto(p, next, j) ==
  /\ pc' = [pc EXCEPT ![p] = next]
  /\ job' = [job EXCEPT ![p] = j]
  /\ call' = [call EXCEPT ![p] = JobCall(j)]
  /\ ret' = [ret EXCEPT ![p] = NoRet]
  /\ UNCHANGED <<grants, logs, now, tx, ncalls, cfg, pre, prev, attribution>>

\* the job awaits a call of the grant service
Invoke(p, c, first, j) ==
  /\ pc' = [pc EXCEPT ![p] = first]
  /\ job' = [job EXCEPT ![p] = j]
  /\ call' = [call EXCEPT ![p] = c]
  /\ tx' = [tx EXCEPT ![p] = NoTx]
  /\ ret' = [ret EXCEPT ![p] = NoRet]
  /\ UNCHANGED <<grants, logs, now, ncalls, cfg, pre, prev, attribution>>

\* the job returns or throws
JobEnd(p, status, value, note, j) ==
  /\ pc' = [pc EXCEPT ![p] = "done"]
  /\ job' = [job EXCEPT ![p] = [j EXCEPT !.active = FALSE]]
  /\ call' = [call EXCEPT ![p] = JobCall(j)]
  /\ ret' = [ret EXCEPT ![p] = [status |-> status, value |-> value, note |-> note]]
  /\ UNCHANGED <<grants, logs, now, tx, ncalls, cfg, pre, prev, attribution>>

StartJob(p) ==
  /\ At(p, "idle")
  /\ p \in cfg.procs
  /\ p = "p1" \/ pc["p1"] # "idle"
  /\ ncalls < cfg.maxCalls
  /\ \E dryRun \in cfg.dryRuns :
       LET j == [NoJob EXCEPT !.active = TRUE, !.dryRun = dryRun, !.now = now,
                              !.year = YearOf(now), !.month = MonthOf(now)]
       IN /\ job' = [job EXCEPT ![p] = j]
          /\ call' = [call EXCEPT ![p] = JobCall(j)]
  /\ ncalls' = ncalls + 1
  /\ pc' = [pc EXCEPT ![p] = "j_sweep"]
  /\ tx' = [tx EXCEPT ![p] = NoTx]
  /\ ret' = [ret EXCEPT ![p] = NoRet]
  /\ pre' = [pre EXCEPT ![p] =
               IF cfg.track THEN [grants |-> grants, logs |-> logs] ELSE NoHist]
  /\ UNCHANGED <<grants, logs, now, cfg, prev, attribution>>

\* 1. batchProcessExpiredGrants, whatever dryRun is: the users to sweep
JobSweep(p) ==
  /\ At(p, "j_sweep")
  /\ \E order \in Perms(usersWithExpiredGrants(grants, now)) :
       JobGoto(p, "j_expire", [job[p] EXCEPT !.sweep = order])

\* total += await processExpiredGrants(userId)
JobExpire(p) ==
  /\ At(p, "j_expire")
  /\ LET j == job[p] IN
       IF j.sweep = <<>>
         THEN JobGoto(p, "j_users", j)
         ELSE Invoke(p, [NoCall EXCEPT !.op = "processExpiredGrants",
                                       !.userId = Head(j.sweep), !.now = now],
                     "x_scan",
                     [j EXCEPT !.sweep = Tail(@), !.stage = "sweep"])

\* 2. the users query and the classification loop
JobUsers(p) ==
  /\ At(p, "j_users")
  /\ \E free \in Perms(GroupMembers(cfg.users, JobGroups[1].name)),
        lifetime \in Perms(GroupMembers(cfg.users, JobGroups[2].name)),
        yearly \in Perms(GroupMembers(cfg.users, JobGroups[3].name)) :
       JobGoto(p, "j_filter",
               [job[p] EXCEPT !.members = <<free, lifetime, yearly>>, !.group = 1])

\* 3-5. pre-filter of a batch: drop the users already granted this month
JobFilter(p) ==
  /\ At(p, "j_filter")
  /\ LET j == job[p]
         g == JobGroups[j.group]
         userIds == j.members[j.group]
         alreadyGranted == getUsersWithGrantThisMonth(grants, Range(userIds),
                                                      g.type, j.year, j.month)
         eligibleIds == SelectSeq(userIds, LAMBDA u : u \notin alreadyGranted)
     IN JobGoto(p, "j_grant", [j EXCEPT !.ids = eligibleIds])

\* batchGrant: one pass of its loop; after the last batch the job returns
JobGrant(p) ==
  /\ At(p, "j_grant")
  /\ LET j == job[p]
         g == JobGroups[j.group]
     IN IF j.ids = <<>>
          THEN IF j.group < Len(JobGroups)
                 THEN JobGoto(p, "j_filter", [j EXCEPT !.group = @ + 1])
                 ELSE JobEnd(p, "ok", j.counts[1] + j.counts[2] + j.counts[3],
                             "job done", j)
          ELSE LET uid == Head(j.ids)
                   sourceRef == JobRef(g.prefix, uid, j.year, j.month)
               IN IF j.dryRun
                    THEN JobGoto(p, "j_grant",
                                 [j EXCEPT !.ids = Tail(@),
                                           !.counts[j.group] = @ + 1,
                                           !.console = @ \cup {"dry run"}])
                    ELSE Invoke(p, [NoCall EXCEPT
                                      !.op = "createGrant", !.userId = uid,
                                      !.type = g.type,
                                      !.amount = cfg.credits.amount,
                                      !.expiresAt =
                                         IF cfg.credits.expireDays # 0
                                           THEN now + cfg.credits.expireDays
                                           ELSE NULL,
                                      !.effectiveAt = now,
                                      !.sourceRef = sourceRef, !.now = now],
                                "cg_check",
                                [j EXCEPT !.ids = Tail(@), !.stage = "grant"])

\* the catch block counting the failed user as processed
GrantFailedCounted(j) ==
  [j EXCEPT !.errors = @ + 1, !.counts[j.group] = @ + 1,
            !.console = @ \cup {"failed"}]

\* catch of an error that is no unique violation: console.error, count is not
\* incremented, and the loop goes on
GrantFailed(j) ==
  [j EXCEPT !.errors = @ + 1, !.console = @ \cup {"failed"}]

\* the awaited call has returned or thrown: an error of the sweep leaves the
\* job; batchGrant counts a grant, skips a unique violation silently, and
\* reports any other error on the console without counting
JobResume(p) ==
  /\ pc[p] = "done"
  /\ job[p].active
  /\ LET j == job[p]
         r == ret[p]
     IN IF j.stage = "sweep"
          THEN IF r.status = "ok"
                 THEN JobGoto(p, "j_expire", [j EXCEPT !.expired = @ + r.value])
                 ELSE JobEnd(p, r.status, 0, "thrown", j)
          ELSE IF r.status = "ok"
                 THEN JobGoto(p, "j_grant",
                              [j EXCEPT !.counts[j.group] = @ + 1,
                                        !.console = @ \cup {r.note}])
                 ELSE IF r.status = "Conflict"
                        THEN JobGoto(p, "j_grant", j)
                        ELSE JobGoto(p, "j_grant", GrantFailed(j))

----------------------------------------------------------------------------
(* POST /api/attribution: each statement runs on its own (no transaction), *)
(* so concurrent requests interleave between the statements                *)

Visitors == {"v1", "v2"}

\* registrationSession || currentSession, as the payload carries it: absent,
\* with a landing page only, or with landing page and source
RegSessions ==
  {[landingPage |-> NONE, source |-> NONE],
   [landingPage |-> "page1", source |-> NONE],
   [landingPage |-> "page1", source |-> "src1"],
   [landingPage |-> "page2", source |-> "src2"]}

\* the row the INSERT adds: reg* only for an authenticated new user
NewAttribution(c) ==
  [userId |-> c.userId,
   regPage |-> IF c.userId # NONE /\ c.isNewUser THEN c.reg.landingPage ELSE NONE,
   regSource |-> IF c.userId # NONE /\ c.isNewUser THEN c.reg.source ELSE NONE,
   lastSeenAt |-> c.now]

\* a step of the handler that stays inside it
SyncGoto(p, next, c, table) ==
  /\ pc' = [pc EXCEPT ![p] = next]
  /\ call' = [call EXCEPT ![p] = c]
  /\ attribution' = table
  /\ UNCHANGED <<grants, logs, now, tx, ret, ncalls, cfg, pre, prev, job>>

\* NextResponse.json({ success: true })
SyncEnd(p, table) ==
  /\ pc' = [pc EXCEPT ![p] = "done"]
  /\ ret' = [ret EXCEPT ![p] = [status |-> "ok", value |-> 0, note |-> "synced"]]
  /\ attribution' = table
  /\ UNCHANGED <<grants, logs, now, call, tx, ncalls, cfg, pre, prev, job>>

\* the request arrives; getSession yields the user or, when it fails, null
StartSync(p) ==
  /\ At(p, "idle")
  /\ p \in cfg.procs
  /\ p = "p1" \/ pc["p1"] # "idle"
  /\ ncalls < cfg.maxCalls
  /\ \E visitorId \in Visitors, userId \in Users \cup {NONE}, reg \in RegSessions :
       /\ call' = [call EXCEPT ![p] =
                     [op |-> "syncAttribution", visitorId |-> visitorId,
                      userId |-> userId, reg |-> reg, isNewUser |-> FALSE,
                      existing |-> NONE, now |-> now]]
       /\ pc' = [pc EXCEPT ![p] = IF userId # NONE THEN "a_new" ELSE "a_ins"]
  /\ ncalls' = ncalls + 1
  /\ tx' = [tx EXCEPT ![p] = NoTx]
  /\ ret' = [ret EXCEPT ![p] = NoRet]
  /\ UNCHANGED <<grants, logs, now, cfg, pre, prev, job, attribution>>

\* isNewUser: no row of the table carries the userId
SyncCheckNew(p) ==
  /\ At(p, "a_new")
  /\ LET c == call[p]
         existingForUser == {v \in DOMAIN attribution : attribution[v].userId = c.userId}
     IN SyncGoto(p, "a_ins", [c EXCEPT !.isNewUser = existingForUser = {}],
                 attribution)

\* INSERT ... ON CONFLICT (visitor_id) DO UPDATE SET updatedAt, lastSeenAt
SyncUpsert(p) ==
  /\ At(p, "a_ins")
  /\ LET c == call[p]
         table == IF c.visitorId \in DOMAIN attribution
                    THEN [attribution EXCEPT ![c.visitorId].lastSeenAt = c.now]
                    ELSE (c.visitorId :> NewAttribution(c)) @@ attribution
     IN IF c.userId # NONE
          THEN SyncGoto(p, "a_sel", c, table)
          ELSE SyncEnd(p, table)

\* the visitorId's row is read back; a row that already has a user is left alone
SyncSelect(p) ==
  /\ At(p, "a_sel")
  /\ LET c == call[p] IN
       IF c.visitorId \in DOMAIN attribution
          /\ attribution[c.visitorId].userId = NONE
         THEN SyncGoto(p, "a_upd",
                       [c EXCEPT !.existing = attribution[c.visitorId]],
                       attribution)
         ELSE SyncEnd(p, attribution)

\* UPDATE ... SET userId (and reg* when the row read had no regSource and the
\* user was new) WHERE visitor_id = visitorId
SyncUpdate(p) ==
  /\ At(p, "a_upd")
  /\ LET c == call[p]
         row == attribution[c.visitorId]
         linked == [row EXCEPT !.userId = c.userId]
         updated == IF c.existing.regSource = NONE /\ c.isNewUser
                      THEN [linked EXCEPT !.regPage = c.reg.landingPage,
                                          !.regSource = c.reg.source]
                      ELSE linked
     IN SyncEnd(p, [attribution EXCEPT ![c.visitorId] = updated])

----------------------------------------------------------------------------
(* Specifications *)

Amounts == 1..MaxAmount

DeductSteps(p) ==
  \/ StartDeduct(p)
  \/ DeductIdem(p)
  \/ DeductHeld(p)
  \/ DeductLock(p)
  \/ DeductLoop(p)

HoldSteps(p) ==
  \/ StartHold(p)
  \/ HoldIdem(p)
  \/ HoldLock(p)
  \/ HoldLoop(p)

ConfirmSteps(p) ==
  \/ StartConfirm(p)
  \/ ConfirmSelect(p)
  \/ ConfirmUpdate(p)

ReleaseSteps(p) ==
  \/ StartRelease(p)
  \/ ReleaseSelect(p)
  \/ ReleaseLoop(p)

ReserveSteps(p) ==
  \/ DeductConfirm(p)
  \/ ConfirmSteps(p)
  \/ ReleaseSteps(p)

RefundSteps(p) ==
  \/ StartRefund(p)
  \/ RefundIdem(p)
  \/ RefundSelect(p)
  \/ RefundLoop(p)

CreateSteps(p) ==
  \/ StartCreateGrant(p)
  \/ CreateCheck(p)
  \/ CreateInsert(p)
  \/ CreateLog(p)

ExpireSteps(p) ==
  \/ StartExpire(p)
  \/ ExpireScan(p)
  \/ ExpireLoop(p)

RevokeSteps(p) ==
  \/ StartRevoke(p)
  \/ RevokeLock(p)
  \/ RevokeLog(p)

DeactivateSteps(p) ==
  \/ StartDeactivate(p)
  \/ DeactivateUpdate(p)

\* Spec: two clients run deductions, reservations and refunds concurrently on
\* a ledger of non-expiring grants
Init ==
  InitWith(Procs, FALSE, MaxCalls, 1, {NULL}, EventIds, Amounts, {NONE}, {0})

Next ==
  \E p \in Procs :
    \/ Return(p)
    \/ Fail(p)
    \/ DeductSteps(p)
    \/ HoldSteps(p)
    \/ ReserveSteps(p)
    \/ RefundSteps(p)

Spec == Init /\ [][Next]_vars

\* SpendSpec: two clients run deductions and holds only
SpendInit ==
  InitWith(Procs, FALSE, MaxCalls + 1, 1, {NULL}, EventIds, Amounts, {NONE}, {0})

SpendNext ==
  \E p \in Procs :
    \/ Return(p)
    \/ Fail(p)
    \/ DeductSteps(p)
    \/ HoldSteps(p)

SpendSpec == SpendInit /\ [][SpendNext]_vars

\* RetrySpec: two clients deliver the same event with the same amount
RetryInit ==
  \E a \in Amounts :
    InitWith(Procs, FALSE, MaxCalls, 1, {NULL}, {"e1"}, {a}, {NONE}, {0})

RetrySpec == RetryInit /\ [][SpendNext]_vars

\* GrantSpec: two clients create grants concurrently on an empty ledger
GrantInit ==
  /\ InitWith(Procs, FALSE, MaxCalls + 1, 0, {NULL, MaxTime}, {}, Amounts,
              SourceRefs, {0})
  /\ grants = <<>>

GrantNext ==
  \/ Tick
  \/ \E p \in Procs :
       \/ Return(p)
       \/ Fail(p)
       \/ CreateSteps(p)
       \/ CreateCatch(p)

GrantSpec == GrantInit /\ [][GrantNext]_vars

\* SeqSpec: one client runs every operation, one call at a time, and the
\* history of the last call is recorded
SeqInit ==
  InitWith({"p1"}, TRUE, MaxCalls, 0, {NULL, MaxTime}, {"e1"}, Amounts,
           {NONE}, {0, 1})

SeqNext ==
  \/ Tick
  \/ \E p \in Procs :
       \/ Return(p)
       \/ Fail(p)
       \/ CreateSteps(p)
       \/ DeductSteps(p)
       \/ HoldSteps(p)
       \/ ReserveSteps(p)
       \/ RefundSteps(p)
       \/ ExpireSteps(p)
       \/ RevokeSteps(p)

SeqSpec == SeqInit /\ [][SeqNext]_vars

\* HoldSpec: two clients reserve, confirm and release credits for one event
HoldInit ==
  InitWith(Procs, FALSE, MaxCalls + 1, 1, {NULL}, {"e1"}, Amounts, {NONE}, {0})

HoldNext ==
  \E p \in Procs :
    \/ Return(p)
    \/ Fail(p)
    \/ HoldSteps(p)
    \/ ConfirmSteps(p)
    \/ ReleaseSteps(p)

HoldSpec == HoldInit /\ [][HoldNext]_vars

\* ExpireSpec: two clients run expiration, deductions and holds concurrently
\* on grants that expire while the calls run
ExpireInit ==
  InitWith(Procs, FALSE, MaxCalls, 1, {NULL, MaxTime}, {"e1"}, Amounts,
           {NONE}, {0})

ExpireNext ==
  \/ Tick
  \/ \E p \in Procs :
       \/ Return(p)
       \/ Fail(p)
       \/ DeductSteps(p)
       \/ HoldSteps(p)
       \/ ExpireSteps(p)

ExpireSpec == ExpireInit /\ [][ExpireNext]_vars

\* OrderSpec: one client creates grants of differing priority, expiry and age
\* and then spends from them
OrderInit ==
  InitWith({"p1"}, TRUE, MaxCalls + 1, 0, {NULL, MaxTime, MaxTime + 1}, {"e1"},
           Amounts, {NONE}, {0})

OrderNext ==
  \/ Tick
  \/ \E p \in Procs :
       \/ Return(p)
       \/ Fail(p)
       \/ CreateSteps(p)
       \/ DeductSteps(p)
       \/ HoldSteps(p)

OrderSpec == OrderInit /\ [][OrderNext]_vars

\* UsableSpec: one client creates grants (some effective later, some
\* expiring), deactivates grants and spends, and the history of the last call
\* is recorded
UsableInit ==
  InitWith({"p1"}, TRUE, MaxCalls + 1, 0, {NULL, MaxTime}, {"e1"}, Amounts,
           {NONE}, {0, 1})

UsableNext ==
  \/ Tick
  \/ \E p \in Procs :
       \/ Return(p)
       \/ Fail(p)
       \/ CreateSteps(p)
       \/ DeactivateSteps(p)
       \/ DeductSteps(p)
       \/ HoldSteps(p)

UsableSpec == UsableInit /\ [][UsableNext]_vars

JobSteps(p) ==
  \/ StartJob(p)
  \/ JobSweep(p)
  \/ JobExpire(p)
  \/ JobUsers(p)
  \/ JobFilter(p)
  \/ JobGrant(p)
  \/ JobResume(p)

\* JobSpec: two triggers run the monthly job, one after the other or
\* overlapping, for a user of any group, on a ledger that may hold grants
\* issued earlier in the month and grants that expire
JobInit ==
  /\ \E k \in 0..(MaxGrants - 1) :
       \E cs \in [1..k -> InitCalls({NULL, MaxTime})],
          users \in [Users -> UserRows], expireDays \in {0, 1} :
         /\ grants = [i \in 1..k |-> NewGrant(cs[i])]
         /\ logs = [i \in 1..k |-> GrantedLog(cs[i], i)]
         /\ cfg = [procs |-> Procs, track |-> FALSE, maxCalls |-> MaxCalls,
                   expiries |-> {NULL, MaxTime}, events |-> {}, amounts |-> {1},
                   sourceRefs |-> {NONE}, delays |-> {0},
                   callers |-> Users, users |-> users,
                   credits |-> [amount |-> 1, expireDays |-> expireDays],
                   dryRuns |-> BOOLEAN, seeded |-> k]
  /\ now = 0
  /\ pc = [p \in Procs |-> "idle"]
  /\ call = [p \in Procs |-> NoCall]
  /\ tx = [p \in Procs |-> NoTx]
  /\ ret = [p \in Procs |-> NoRet]
  /\ ncalls = 0
  /\ pre = [p \in Procs |-> NoHist]
  /\ prev = NoPrev
  /\ job = [p \in Procs |-> NoJob]
  /\ attribution = NoAttribution

JobNext ==
  \/ Tick
  \/ \E p \in Procs :
       \/ Return(p)
       \/ Fail(p)
       \/ JobSteps(p)
       \/ ExpireScan(p)
       \/ ExpireLoop(p)
       \/ CreateCheck(p)
       \/ CreateInsert(p)
       \/ CreateLog(p)
       \/ CreateCatch(p)

JobSpec == JobInit /\ [][JobNext]_vars

SyncSteps(p) ==
  \/ StartSync(p)
  \/ SyncCheckNew(p)
  \/ SyncUpsert(p)
  \/ SyncSelect(p)
  \/ SyncUpdate(p)

\* SyncSpec: requests from two devices reach POST /api/attribution, one
\* after the other or overlapping
SyncInit ==
  /\ InitWith(Procs, FALSE, MaxCalls + 1, 0, {NULL}, {}, {1}, {NONE}, {0})
  /\ grants = <<>>

SyncNext ==
  \E p \in Procs :
    \/ Return(p)
    \/ SyncSteps(p)

SyncSpec == SyncInit /\ [][SyncNext]_vars

\* RefundSpec: one client reserves and charges an event, and two clients
\* refund it, one after the other or overlapping
RefundInit ==
  InitWith(Procs, FALSE, MaxCalls + 1, 1, {NULL}, {"e1"}, Amounts, {NONE}, {0})

RefundNext ==
  \/ DeductSteps("p1")
  \/ HoldSteps("p1")
  \/ DeductConfirm("p1")
  \/ \E p \in Procs :
       \/ Return(p)
       \/ Fail(p)
       \/ RefundSteps(p)

RefundSpec == RefundInit /\ [][RefundNext]_vars

\* AllSpec: two clients run every operation concurrently
AllInit ==
  InitWith(Procs, FALSE, MaxCalls, 1, {NULL, MaxTime}, {"e1"}, Amounts,
           {NONE}, {0})

AllSpec == AllInit /\ [][SeqNext]_vars

----------------------------------------------------------------------------
(* Properties *)

UserGrants(gs, userId) == {i \in DOMAIN gs : gs[i].userId = userId}

UserLogs(ls, userId, actions) ==
  {i \in DOMAIN ls : ls[i].userId = userId /\ ls[i].action \in actions}

RECURSIVE SumAbs(_, _)
SumAbs(ls, S) ==
  IF S = {} THEN 0
  ELSE LET i == CHOOSE j \in S : TRUE
       IN Abs(ls[i].amountChange) + SumAbs(ls, S \ {i})

\* the right-hand side of the conservation equation
LedgerTotal(ls, userId) ==
  SumChange(ls, UserLogs(ls, userId, {"granted", "released", "refunded"}))
    - SumAbs(ls, UserLogs(ls, userId, {"consumed", "expired", "revoked", "held"}))

\* C1: for every user, in every reachable state, the sum of the grant
\* balances equals granted + released + refunded - |consumed| - |expired|
\* - |revoked| - |held| over the user's log rows
Conservation ==
  \A u \in Users :
    SumBalance(grants, UserGrants(grants, u)) = LedgerTotal(logs, u)

Loops == {"d_loop", "h_loop"}

Charged(ls, userId) == SumAbs(ls, UserLogs(ls, userId, {"consumed", "held"}))

Granted(ls, userId) == SumChange(ls, UserLogs(ls, userId, {"granted"}))

\* C2: under any interleaving of deductCredits and holdCredits no balance is
\* negative, what the committed calls took plus what is left equals what was
\* granted (so the successful amounts never exceed the balance there was), a
\* call inside its loop works on the committed balance of every grant it has
\* locked and these cover its amount, and a call refused with
\* InsufficientCredits asked for more than the usable balance left
NoOverSpending ==
  /\ \A i \in GrantIds : grants[i].balance >= 0
  /\ \A u \in Users :
       /\ Charged(logs, u) <= Granted(logs, u)
       /\ Charged(logs, u) + SumBalance(grants, UserGrants(grants, u))
            = Granted(logs, u)
  /\ \A p \in Procs :
       /\ pc[p] \in Loops =>
            /\ \A k \in DOMAIN tx[p].list :
                 grants[tx[p].list[k].id].balance = tx[p].list[k].amt
            /\ tx[p].remaining > 0
            /\ SumAmt(tx[p].list) >= tx[p].remaining
            /\ SumAbs(tx[p].ins, DOMAIN tx[p].ins) + tx[p].remaining
                 = call[p].amount
       /\ (pc[p] = "done" /\ ret[p].status = "InsufficientCredits") =>
            SumBalance(grants,
                       UsableIds(grants, call[p].userId, call[p].now))
              < call[p].amount

\* a call for another event waited for the row locks of a call that has just
\* committed, and what is left of the rows it selected no longer covers it
OverdraftRefused ==
  \E p, q \in Procs :
    /\ pc[q] = "done"
    /\ ret[q].note \in {"deducted", "held"}
    /\ pc[p] \in {"d_wait", "h_wait"}
    /\ call[p].eventId # call[q].eventId
    /\ Granted(logs, call[p].userId) >= call[p].amount
    /\ SumBalance(grants, Range(tx[p].cand)) < call[p].amount

SameDeduct(c, d) ==
  /\ c.op = "deductCredits"
  /\ d.op = "deductCredits"
  /\ c.userId = d.userId
  /\ c.eventId = d.eventId
  /\ c.amount = d.amount

TotalBalance(gs, userId) == SumBalance(gs, UserGrants(gs, userId))

ChargedOnce ==
  \A u \in Users : \A a \in cfg.amounts :
    Granted(logs, u) - TotalBalance(grants, u) \in {0, a}

GrantedRows(ls, grantId) ==
  {i \in DOMAIN ls : ls[i].grantId = grantId /\ ls[i].action = "granted"}

\* C5: however createGrant calls with the same non-empty sourceRef interleave,
\* at most one grant carries that sourceRef, it has exactly one granted row,
\* and every such call that was not cut short by a store failure returns
\* success and the id of that grant
IdempotentCreate ==
  /\ \A s \in SourceRefs \ {NONE} :
       /\ Cardinality(GrantBySourceRef(grants, s)) <= 1
       /\ \A i \in GrantBySourceRef(grants, s) :
            Cardinality(GrantedRows(logs, i)) = 1
  /\ \A p \in Procs :
       (/\ pc[p] = "done"
        /\ call[p].op = "createGrant"
        /\ call[p].sourceRef # NONE
        /\ ret[p].status # "StoreError") =>
         /\ ret[p].status = "ok"
         /\ GrantBySourceRef(grants, call[p].sourceRef) = {ret[p].value}

\* the race: a call passed the pre-check, lost the insert to the unique index
\* and returned the winner's grant
CreateRaceCaught ==
  \E p \in Procs :
    /\ pc[p] = "done"
    /\ call[p].op = "createGrant"
    /\ ret[p].note = "caught"
    /\ GrantBySourceRef(grants, call[p].sourceRef) = {ret[p].value}

\* grant a comes strictly before grant b in the waterfall
Precedes(a, b) ==
  \/ a.priority < b.priority
  \/ /\ a.priority = b.priority
     /\ a.expiresAt # NULL
     /\ (b.expiresAt = NULL \/ a.expiresAt < b.expiresAt)
  \/ /\ a.priority = b.priority
     /\ a.expiresAt = b.expiresAt
     /\ a.createdAt < b.createdAt

Touched(before, after) ==
  {i \in DOMAIN before : after[i].balance < before[i].balance}

\* C6: after a successful deductCredits or holdCredits only usable grants were
\* reduced, by the amount in total; a grant was reduced only if every usable
\* grant before it (priority ascending, then expiresAt ascending with null
\* last, then createdAt ascending) ended at 0, and at most one reduced grant
\* is left with a positive balance
WaterfallOrder ==
  \A p \in Procs :
    (pc[p] = "done" /\ ret[p].note \in {"deducted", "held"}) =>
      LET c == call[p]
          before == pre[p].grants
          usable == UsableIds(before, c.userId, c.now)
          touched == Touched(before, grants)
      IN /\ DOMAIN grants = DOMAIN before
         /\ touched \subseteq usable
         /\ \A i \in DOMAIN before \ touched : grants[i] = before[i]
         /\ \A j \in touched : \A i \in usable :
              Precedes(before[i], before[j]) => grants[i].balance = 0
         /\ Cardinality({i \in touched : grants[i].balance > 0}) <= 1
         /\ TotalBalance(before, c.userId) - TotalBalance(grants, c.userId)
              = c.amount

\* the grant created later is drained first and the older one, which comes
\* after it in the order, is left alone
LaterGrantFirst ==
  \E p \in Procs :
    /\ pc[p] = "done"
    /\ ret[p].note \in {"deducted", "held"}
    /\ \E i, j \in UsableIds(pre[p].grants, call[p].userId, call[p].now) :
         /\ j < i
         /\ Precedes(pre[p].grants[i], pre[p].grants[j])
         /\ i \in Touched(pre[p].grants, grants)
         /\ j \notin Touched(pre[p].grants, grants)

Spending == {"deductCredits", "holdCredits"}

EventRows(ls, userId, eventId, actions) ==
  {i \in DOMAIN ls : /\ ls[i].userId = userId
                     /\ ls[i].eventId = eventId
                     /\ ls[i].action \in actions}

\* C7: a deductCredits or holdCredits call for an event without consumed or
\* held rows whose amount exceeds the sum of the user's usable balances fails
\* with InsufficientCredits, and the grants and the log rows are the same
\* after the call as before it
InsufficientUntouched ==
  \A p \in Procs :
    (/\ pc[p] = "done"
     /\ call[p].op \in Spending
     /\ EventRows(pre[p].logs, call[p].userId, call[p].eventId,
                  {"consumed", "held"}) = {}
     /\ call[p].amount
          > SumBalance(pre[p].grants,
                       UsableIds(pre[p].grants, call[p].userId, call[p].now))) =>
      /\ ret[p].status = "InsufficientCredits"
      /\ grants = pre[p].grants
      /\ logs = pre[p].logs

\* a call is refused although the user's grants, counting the ones that are
\* not usable, hold enough
RefusedOnUsableTotal ==
  \E p \in Procs :
    /\ pc[p] = "done"
    /\ call[p].op \in Spending
    /\ ret[p].status = "InsufficientCredits"
    /\ TotalBalance(grants, call[p].userId) >= call[p].amount

Finishing(p) == pc[p] # "done" /\ pc'[p] = "done"

\* C8: a call that fails, at whatever step, leaves every grant and every log
\* row unchanged; the tables change only in the single step that ends a call
\* successfully, and that step applies every grant write and every log row
\* its transaction had staged (a new grant appears together with its
\* granted row), so no state holds a part of a call's writes
AllOrNothing ==
  [][/\ \A p \in Procs :
          (Finishing(p) /\ ret'[p].status # "ok") =>
            (grants' = grants /\ logs' = logs)
     /\ (grants' # grants \/ logs' # logs) =>
          \E p \in Procs :
            /\ Finishing(p)
            /\ ret'[p].status = "ok"
            /\ \A i \in DOMAIN tx[p].gw :
                 /\ grants'[i].balance = tx[p].gw[i].balance
                 /\ grants'[i].isActive = tx[p].gw[i].isActive
            /\ Len(logs') >= Len(logs) + Len(tx[p].ins)
            /\ \A k \in DOMAIN tx[p].ins : logs'[Len(logs) + k] = tx[p].ins[k]
            /\ \A i \in DOMAIN grants' \ DOMAIN grants :
                 \E k \in DOMAIN logs' \ DOMAIN logs :
                   /\ logs'[k].grantId = i
                   /\ logs'[k].action = "granted"
                   /\ logs'[k].amountChange = grants'[i].balance]_vars

\* a call failed after its transaction had written
FailedAfterWrite ==
  \E p \in Procs :
    /\ pc[p] = "done"
    /\ ret[p].status \in {"StoreError", "Conflict"}
    /\ call[p].op \in {"createGrant", "deductCredits", "holdCredits",
                       "releaseCredits", "refundCredits", "revokeGrant",
                       "processExpiredGrants"}

\* the tables a single deductCredits call leaves, taking the grants in the
\* given order
RECURSIVE DirectDeduct(_, _, _, _, _)
DirectDeduct(gs, ls, c, order, remaining) ==
  IF order = <<>> \/ remaining <= 0
    THEN [grants |-> gs, logs |-> ls]
    ELSE LET grant == Item(gs, Head(order))
             it == DeductIter(grant, remaining)
         IN DirectDeduct([gs EXCEPT ![grant.id].balance = it.newBalance],
                         Append(ls, ConsumedLog(c, grant, it.deductFromThis)),
                         c, Tail(order), remaining - it.deductFromThis)

\* the call that just ended is op, it follows a holdCredits call that reserved
\* credits for the same user and event
AfterHold(p, op, note) ==
  /\ pc[p] = "done"
  /\ call[p].op = op
  /\ ret[p].note = note
  /\ prev.call.op = "holdCredits"
  /\ prev.ret.note = "held"
  /\ prev.call.userId = call[p].userId
  /\ prev.call.eventId = call[p].eventId

\* C9: holdCredits followed by confirmHold for the same event ends with the
\* grants and the log rows (consumed rows per grant with the same negative
\* amountChange, no held row left) that one deductCredits call with the same
\* user, event and amount produces from the grants the hold started from
HoldConfirmEqualsDeduct ==
  \A p \in Procs :
    AfterHold(p, "confirmHold", "confirmed") =>
      LET h == prev.call
          usable == UsableIds(prev.grants, h.userId, h.now)
      IN /\ ~(SumBalance(prev.grants, usable) < h.amount)
         /\ EventRows(logs, h.userId, h.eventId, {"held"}) = {}
         /\ \E order \in OrderedIds(prev.grants, usable) :
              LET r == DirectDeduct(prev.grants, prev.logs,
                                    [h EXCEPT !.op = "deductCredits"],
                                    order, h.amount)
              IN grants = r.grants /\ logs = r.logs

\* a hold that spans two grants has been confirmed
SpanningHoldConfirmed ==
  \E p \in Procs :
    /\ AfterHold(p, "confirmHold", "confirmed")
    /\ Cardinality(EventRows(logs, call[p].userId, call[p].eventId,
                             {"consumed"})) = 2

\* C10: after holdCredits followed by releaseCredits for the same event every
\* grant is as it was before the hold, the event has no held row, the release
\* added no row, and each row the hold wrote is now a released row whose
\* amountChange is the positive amount the hold had taken from its grant
HoldReleaseRestores ==
  \A p \in Procs :
    AfterHold(p, "releaseCredits", "released") =>
      /\ grants = prev.grants
      /\ EventRows(logs, call[p].userId, call[p].eventId, {"held"}) = {}
      /\ Len(logs) = Len(pre[p].logs)
      /\ Len(logs) > Len(prev.logs)
      /\ \A k \in DOMAIN logs :
           IF k <= Len(prev.logs)
             THEN logs[k] = prev.logs[k]
             ELSE /\ logs[k].action = "released"
                  /\ logs[k].eventId = call[p].eventId
                  /\ logs[k].amountChange > 0
                  /\ logs[k].amountChange
                       = prev.grants[logs[k].grantId].balance
                           - pre[p].grants[logs[k].grantId].balance

\* a hold that spans two grants has been released
SpanningHoldReleased ==
  \E p \in Procs :
    /\ AfterHold(p, "releaseCredits", "released")
    /\ Cardinality(EventRows(logs, call[p].userId, call[p].eventId,
                             {"released"})) = 2

\* the call that just ended is op, it follows the given call of the same user
\* and event
After(p, op, note, prevOp, prevNote) ==
  /\ pc[p] = "done"
  /\ call[p].op = op
  /\ ret[p].note = note
  /\ prev.call.op = prevOp
  /\ prev.ret.note = prevNote
  /\ prev.call.userId = call[p].userId
  /\ prev.call.eventId = call[p].eventId

\* C11: after a deductCredits that charged the event and the refundCredits
\* that follows it, every row there was is unchanged (the consumed rows keep
\* their negative amountChange), the rows added are one refunded row per
\* consumed row of the event, for the same grant with the positive amount,
\* and every grant is as it was before the deduction
RefundAdditive ==
  \A p \in Procs :
    After(p, "refundCredits", "refunded", "deductCredits", "deducted") =>
      LET c == call[p]
          consumed == EventRows(pre[p].logs, c.userId, c.eventId, {"consumed"})
          added == {k \in DOMAIN logs : k > Len(pre[p].logs)}
      IN /\ \A k \in DOMAIN pre[p].logs : logs[k] = pre[p].logs[k]
         /\ consumed # {}
         /\ \A k \in consumed : logs[k].amountChange < 0
         /\ \A k \in added :
              /\ logs[k].action = "refunded"
              /\ logs[k].eventId = c.eventId
              /\ logs[k].userId = c.userId
         /\ \A i \in consumed :
              Cardinality({k \in added :
                             /\ logs[k].grantId = logs[i].grantId
                             /\ logs[k].amountChange = 0 - logs[i].amountChange})
                = 1
         /\ Cardinality(added) = Cardinality(consumed)
         /\ grants = prev.grants

\* a deduction that spans two grants has been refunded
SpanningDeductRefunded ==
  \E p \in Procs :
    /\ After(p, "refundCredits", "refunded", "deductCredits", "deducted")
    /\ Cardinality(EventRows(logs, call[p].userId, call[p].eventId,
                             {"refunded"})) = 2

GrantRows(ls, grantId, actions) ==
  {i \in DOMAIN ls : ls[i].grantId = grantId /\ ls[i].action \in actions}

\* C12: with processExpiredGrants racing deductCredits and holdCredits, every
\* expired row staged by a running call carries minus the committed balance
\* of its grant, which the call holds locked and which is positive; every
\* expired row written is negative (a grant found at 0 under the lock gets
\* none); and for every grant the balance plus what was consumed, held and
\* expired equals its amount, so no credit is both spent and written off
ExpireUnderLock ==
  /\ \A p \in Procs : \A k \in DOMAIN tx[p].ins :
       tx[p].ins[k].action = "expired" =>
         /\ tx[p].ins[k].grantId \in tx[p].locked
         /\ grants[tx[p].ins[k].grantId].balance > 0
         /\ tx[p].ins[k].amountChange
              = 0 - grants[tx[p].ins[k].grantId].balance
  /\ \A k \in LogIds : logs[k].action = "expired" => logs[k].amountChange < 0
  /\ \A i \in GrantIds :
       /\ grants[i].balance >= 0
       /\ grants[i].balance
            + SumAbs(logs, GrantRows(logs, i, {"consumed", "held", "expired"}))
            = grants[i].amount

\* the scan saw an expired grant with balance, a concurrent call drained it,
\* and processExpiredGrants skipped it under the lock
DrainedGrantSkipped ==
  \E p \in Procs :
    /\ pc[p] = "done"
    /\ call[p].op = "processExpiredGrants"
    /\ ret[p].note = "expired"
    /\ ret[p].value = 0
    /\ \A k \in LogIds : logs[k].action # "expired"

\* C14: no call that reuses an idempotency key reports a unique-constraint
\* conflict to its caller
ConflictNeverSurfaced ==
  \A p \in Procs : pc[p] = "done" => ret[p].status # "Conflict"

\* C18: every grant has 0 <= balance <= amount
BalanceBounds ==
  \A i \in GrantIds :
    /\ 0 <= grants[i].balance
    /\ grants[i].balance <= grants[i].amount

\* C15: deductCredits on an event that has held rows and no consumed row
\* succeeds exactly when the held amounts sum to the amount; then every held
\* row of the event is consumed with its amountChange unchanged, no row is
\* added and no grant changes; otherwise it fails with AmountMismatch and
\* leaves every row and every grant as it was
DeductOnHeld ==
  \A p \in Procs :
    LET c == call[p]
        held == EventRows(pre[p].logs, c.userId, c.eventId, {"held"})
    IN (/\ pc[p] = "done"
        /\ c.op = "deductCredits"
        /\ held # {}
        /\ EventRows(pre[p].logs, c.userId, c.eventId, {"consumed"}) = {}) =>
         IF SumAbs(pre[p].logs, held) = c.amount
           THEN /\ ret[p].status = "ok"
                /\ grants = pre[p].grants
                /\ DOMAIN logs = DOMAIN pre[p].logs
                /\ \A k \in DOMAIN logs :
                     logs[k] = IF k \in held
                                 THEN [pre[p].logs[k] EXCEPT !.action = "consumed"]
                                 ELSE pre[p].logs[k]
           ELSE /\ ret[p].status = "AmountMismatch"
                /\ grants = pre[p].grants
                /\ logs = pre[p].logs

\* a reservation spanning two grants has been confirmed by deductCredits
SpanningHoldDeducted ==
  \E p \in Procs :
    /\ After(p, "deductCredits", "auto-confirmed", "holdCredits", "held")
    /\ Cardinality(EventRows(logs, call[p].userId, call[p].eventId,
                             {"consumed"})) = 2

\* C16: refundCredits for an event without refunded and without consumed rows
\* fails with NothingToRefund and leaves every grant and every row as it was
RefundNeedsConsumed ==
  \A p \in Procs :
    (/\ pc[p] = "done"
     /\ call[p].op = "refundCredits"
     /\ EventRows(pre[p].logs, call[p].userId, call[p].eventId,
                  {"refunded", "consumed"}) = {}) =>
      /\ ret[p].status = "NothingToRefund"
      /\ grants = pre[p].grants
      /\ logs = pre[p].logs

\* the refund of an event that is only reserved has been refused
HeldEventNotRefunded ==
  \E p \in Procs :
    /\ pc[p] = "done"
    /\ call[p].op = "refundCredits"
    /\ ret[p].status = "NothingToRefund"
    /\ EventRows(logs, call[p].userId, call[p].eventId, {"held"}) # {}

\* C17: revokeGrant on an existing grant, unless the store fails, returns the
\* grant's balance, leaves the grant with balance 0 and inactive and every
\* other grant as it was, and appends exactly one revoked row carrying minus
\* the returned amount when that amount is positive and no row when it is 0;
\* on a grant that does not exist it fails with NotFound and changes nothing
RevokePostcondition ==
  \A p \in Procs :
    (pc[p] = "done" /\ call[p].op = "revokeGrant" /\ ret[p].status # "StoreError") =>
      LET g == call[p].grantId
          before == pre[p].grants
      IN IF g \notin DOMAIN before
           THEN /\ ret[p].status = "NotFound"
                /\ grants = before
                /\ logs = pre[p].logs
           ELSE /\ ret[p].status = "ok"
                /\ ret[p].value = before[g].balance
                /\ grants = [before EXCEPT ![g].balance = 0, ![g].isActive = FALSE]
                /\ logs = IF ret[p].value > 0
                            THEN Append(pre[p].logs,
                                        [userId |-> before[g].userId, grantId |-> g,
                                         grantType |-> before[g].type,
                                         action |-> "revoked",
                                         amountChange |-> 0 - ret[p].value,
                                         eventId |-> NONE,
                                         createdAt |-> call[p].now])
                            ELSE pre[p].logs

\* a grant has been revoked a second time
RevokedTwice ==
  \E p \in Procs :
    /\ pc[p] = "done"
    /\ call[p].op = "revokeGrant"
    /\ prev.call.op = "revokeGrant"
    /\ prev.call.grantId = call[p].grantId
    /\ prev.ret.value > 0
    /\ ret[p].note = "deactivated"
    /\ ret[p].value = 0

\* the grant is inactive, not yet effective or past its expiry at time t
Unusable(g, t) ==
  \/ ~g.isActive
  \/ g.effectiveAt > t
  \/ (g.expiresAt # NULL /\ g.expiresAt <= t)

\* C20: deductCredits and holdCredits leave every grant unchanged that at
\* call time is inactive, not yet effective or past its expiry, whatever
\* balance it holds; and a call for an event without consumed or held rows
\* fails with InsufficientCredits when the balances of the other grants of
\* the user do not cover the amount
OnlyUsableDeducted ==
  \A p \in Procs :
    (pc[p] = "done" /\ call[p].op \in Spending) =>
      LET c == call[p]
          before == pre[p].grants
          usable == {i \in UserGrants(before, c.userId) : ~Unusable(before[i], c.now)}
      IN /\ \A i \in DOMAIN before :
              Unusable(before[i], c.now) => grants[i] = before[i]
         /\ (/\ EventRows(pre[p].logs, c.userId, c.eventId, {"consumed", "held"}) = {}
             /\ SumBalance(before, usable) < c.amount)
              => ret[p].status = "InsufficientCredits"

\* a call has spent from one grant while another grant of the user that
\* holds balance but is inactive, not yet effective or expired stayed as it was
UnusableBalanceSkipped ==
  \E p \in Procs :
    /\ pc[p] = "done"
    /\ call[p].op \in Spending
    /\ ret[p].note \in {"deducted", "held"}
    /\ \E i \in DOMAIN pre[p].grants :
         /\ pre[p].grants[i].balance > 0
         /\ Unusable(pre[p].grants[i], call[p].now)
         /\ grants[i] = pre[p].grants[i]

\* the grant type the job issues to a user of the plan
ExpectedType(plan) ==
  CASE plan = "free" -> "promo"
    [] plan = "lifetime" -> "lifetime"
    [] plan = "yearly" -> "subscription"
    [] OTHER -> NONE

\* grants of the user and type that carry the sourceRef
GrantsByRef(gs, userId, type, sourceRef) ==
  {i \in DOMAIN gs : /\ gs[i].userId = userId
                     /\ gs[i].type = type
                     /\ gs[i].sourceRef = sourceRef}

\* grants of the user and type created in the month under another sourceRef
\* (issued by another path than the job's run for that month)
OtherGrantsInMonth(gs, userId, type, year, month, sourceRef) ==
  {i \in DOMAIN gs : /\ gs[i].userId = userId
                     /\ gs[i].type = type
                     /\ YearOf(gs[i].createdAt) = year
                     /\ MonthOf(gs[i].createdAt) = month
                     /\ gs[i].sourceRef # sourceRef}

\* C13: however often the monthly job runs for a month, one run after the
\* other or overlapping, a user holds at most one grant of the expected type
\* issued by the job for that month; and when a run that is not a dry run
\* has returned without reporting an error, every user who is not banned,
\* belongs to the free, lifetime or yearly group and has not received a grant
\* of the expected type in that month by another path holds exactly one such
\* grant, of the configured amount and with exactly one granted row
MonthlyGrantOnce ==
  /\ \A u \in Users, t \in 0..MaxTime :
       LET plan == cfg.users[u].plan
           ref == JobRef("monthly_" \o plan, u, YearOf(t), MonthOf(t))
       IN Cardinality(GrantsByRef(grants, u, ExpectedType(plan), ref)) <= 1
  /\ \A p \in Procs :
       (/\ pc[p] = "done"
        /\ call[p].op = "grantMonthlyCredits"
        /\ ret[p].status = "ok"
        /\ ~job[p].dryRun
        /\ job[p].errors = 0) =>
         \A u \in Users :
           LET row == cfg.users[u]
               type == ExpectedType(row.plan)
               ref == JobRef("monthly_" \o row.plan, u, job[p].year, job[p].month)
               byJob == GrantsByRef(grants, u, type, ref)
           IN (/\ ~row.banned
               /\ type # NONE
               /\ OtherGrantsInMonth(grants, u, type, job[p].year, job[p].month,
                                     ref) = {}) =>
                /\ Cardinality(byJob) = 1
                /\ \A i \in byJob :
                     /\ grants[i].amount = cfg.credits.amount
                     /\ Cardinality(GrantedRows(logs, i)) = 1

\* a run of the job that overlapped another run for the same month has
\* returned: its createGrant found the other run's grant, before the insert
\* or through the unique index
OverlappingRunDeduplicated ==
  \E p \in Procs :
    /\ pc[p] = "done"
    /\ call[p].op = "grantMonthlyCredits"
    /\ ret[p].status = "ok"
    /\ ~job[p].dryRun
    /\ job[p].console \cap {"already exists", "caught"} # {}

\* C19: no step of a run of the monthly job with dryRun = true changes the
\* credit_grant or the credit_log table
DryRunWritesNothing ==
  [][\A p \in Procs :
       (/\ job[p].active
        /\ job[p].dryRun
        /\ (pc'[p] # pc[p] \/ tx'[p] # tx[p])) =>
         (grants' = grants /\ logs' = logs)]_vars

\* the row carries registration attribution
RegSet(row) == row.regPage # NONE \/ row.regSource # NONE

\* C21: at most one user_attribution row of a user has reg_* fields set, and
\* no step changes the reg_* fields of a row that has them set
RegWrittenOnce ==
  /\ [](\A u \in Users :
          Cardinality({v \in DOMAIN attribution :
                         attribution[v].userId = u /\ RegSet(attribution[v])}) <= 1)
  /\ [][\A v \in DOMAIN attribution :
          RegSet(attribution[v]) =>
            /\ attribution'[v].regPage = attribution[v].regPage
            /\ attribution'[v].regSource = attribution[v].regSource]_vars

\* rows appended to the log since it was ls
NewRows(before, after) == {i \in DOMAIN after : i > Len(before)}

\* C22: a deductCredits (holdCredits) call that went through the waterfall
\* leaves the earlier rows as they were and appends, for every grant whose
\* balance it reduced, exactly one consumed (held) row of the event whose
\* amountChange is minus the amount taken from that grant, and no row for any
\* other grant; the appended rows sum to minus the amount of the call
OneRowPerGrantTouched ==
  \A p \in Procs :
    (/\ pc[p] = "done"
     /\ call[p].op \in Spending
     /\ ret[p].note \in {"deducted", "held"}) =>
      LET c == call[p]
          before == pre[p].grants
          action == IF c.op = "deductCredits" THEN "consumed" ELSE "held"
          new == NewRows(pre[p].logs, logs)
          taken(i) == before[i].balance - grants[i].balance
      IN /\ SubSeq(logs, 1, Len(pre[p].logs)) = pre[p].logs
         /\ \A k \in new : /\ logs[k].action = action
                           /\ logs[k].eventId = c.eventId
                           /\ logs[k].userId = c.userId
                           /\ logs[k].amountChange < 0
         /\ \A i \in DOMAIN before :
              LET rows == {k \in new : logs[k].grantId = i}
              IN IF taken(i) > 0
                   THEN /\ Cardinality(rows) = 1
                        /\ \A k \in rows : logs[k].amountChange = 0 - taken(i)
                   ELSE taken(i) = 0 /\ rows = {}
         /\ SumChange(logs, new) = 0 - c.amount

\* a deduction has been split over two grants and has written two rows
DeductionSplitInTwoRows ==
  \E p \in Procs :
    /\ pc[p] = "done"
    /\ call[p].op = "deductCredits"
    /\ ret[p].note = "deducted"
    /\ Cardinality(NewRows(pre[p].logs, logs)) = 2

\* C23: a holdCredits call (of any positive amount) for an event of the user
\* that already has a held or a consumed row returns successfully and leaves
\* every grant and every log row as it was
HoldOnReservedEvent ==
  \A p \in Procs :
    (/\ pc[p] = "done"
     /\ call[p].op = "holdCredits"
     /\ EventRows(pre[p].logs, call[p].userId, call[p].eventId,
                  {"held", "consumed"}) # {}) =>
      /\ ret[p].status = "ok"
      /\ grants = pre[p].grants
      /\ logs = pre[p].logs

\* a hold for a charged event has returned successfully although it asked
\* for more than the user's grants hold
OversizedHoldOnChargedEvent ==
  \E p \in Procs :
    /\ pc[p] = "done"
    /\ call[p].op = "holdCredits"
    /\ ret[p].status = "ok"
    /\ EventRows(pre[p].logs, call[p].userId, call[p].eventId, {"consumed"}) # {}
    /\ call[p].amount > TotalBalance(grants, call[p].userId)

\* C24: however often and in whatever interleaving an event's hold is
\* released, every grant's balance is restored by its held amount exactly
\* once: with holds, confirmations and releases only, the balance of every
\* grant is its amount minus what its held and consumed rows took
ReleaseRestoresOnce ==
  \A i \in GrantIds :
    grants[i].balance
      = grants[i].amount - SumAbs(logs, GrantRows(logs, i, {"held", "consumed"}))

\* refunded rows that reverse the consumed row
RefundsOf(ls, k) ==
  {r \in DOMAIN ls : /\ ls[r].action = "refunded"
                     /\ ls[r].userId = ls[k].userId
                     /\ ls[r].eventId = ls[k].eventId
                     /\ ls[r].grantId = ls[k].grantId}

\* C25: however often and in whatever interleaving an event is refunded,
\* every grant's balance is restored by its consumed amount exactly once
\* (its balance is its amount minus what its held and consumed rows took plus
\* what its refunded rows returned), no consumed row has more than one
\* refunded row, and when a refund has returned successfully every consumed
\* row of the event has exactly one refunded row, of the same amount
RefundRestoresOnce ==
  /\ \A i \in GrantIds :
       grants[i].balance
         = grants[i].amount
             - SumAbs(logs, GrantRows(logs, i, {"held", "consumed"}))
             + SumChange(logs, GrantRows(logs, i, {"refunded"}))
  /\ \A k \in LogIds :
       logs[k].action = "consumed" => Cardinality(RefundsOf(logs, k)) <= 1
  /\ \A p \in Procs :
       (pc[p] = "done" /\ call[p].op = "refundCredits" /\ ret[p].status = "ok") =>
         \A k \in EventRows(logs, call[p].userId, call[p].eventId, {"consumed"}) :
           /\ Cardinality(RefundsOf(logs, k)) = 1
           /\ \A r \in RefundsOf(logs, k) :
                logs[r].amountChange = 0 - logs[k].amountChange

\* of two overlapping refunds of one event the first has restored the
\* balance and the second has been stopped by the unique index
SecondRefundStopped ==
  \E p \in Procs :
    /\ pc[p] = "done"
    /\ call[p].op = "refundCredits"
    /\ ret[p].status = "Conflict"
    /\ LogsOf(logs, call[p].userId, call[p].eventId, "refunded") # {}

\* C26: processExpiredGrants of a user, run on its own and unless the store
\* fails, leaves every active grant of the user with expiresAt <= now at
\* balance 0 and every other grant unchanged, appends one expired row per
\* grant it zeroed carrying minus the balance zeroed, and returns the sum of
\* the balances zeroed; with nothing to zero it returns 0 and writes nothing
ExpirePostcondition ==
  \A p \in Procs :
    (/\ pc[p] = "done"
     /\ call[p].op = "processExpiredGrants"
     /\ ret[p].status # "StoreError") =>
      LET c == call[p]
          before == pre[p].grants
          due == {i \in DOMAIN before : /\ before[i].userId = c.userId
                                        /\ before[i].isActive
                                        /\ before[i].expiresAt # NULL
                                        /\ before[i].expiresAt <= c.now}
          zeroed == {i \in due : before[i].balance > 0}
          new == NewRows(pre[p].logs, logs)
      IN /\ ret[p].status = "ok"
         /\ grants = [i \in DOMAIN before |->
                        IF i \in due THEN [before[i] EXCEPT !.balance = 0]
                        ELSE before[i]]
         /\ SubSeq(logs, 1, Len(pre[p].logs)) = pre[p].logs
         /\ Cardinality(new) = Cardinality(zeroed)
         /\ \A i \in zeroed :
              \E k \in new : /\ logs[k].grantId = i
                             /\ logs[k].action = "expired"
                             /\ logs[k].userId = c.userId
                             /\ logs[k].amountChange = 0 - before[i].balance
         /\ ret[p].value = SumBalance(before, zeroed)

\* a call has zeroed a grant at the very instant of its expiry
ExpiredAtExpiryInstant ==
  \E p \in Procs :
    /\ pc[p] = "done"
    /\ call[p].op = "processExpiredGrants"
    /\ ret[p].value > 0
    /\ \E i \in DOMAIN pre[p].grants :
         /\ pre[p].grants[i].balance > 0
         /\ pre[p].grants[i].expiresAt = call[p].now
         /\ grants[i].balance = 0

\* C27: in every step every log row stays in the table at its place and
\* keeps its user, grant, grant type, event and creation time; it keeps its action and
\* amountChange too, unless it is a held row that becomes consumed with the
\* same amountChange or released with the absolute value of its amountChange
LogImmutability ==
  [][\A k \in DOMAIN logs :
       /\ k \in DOMAIN logs'
       /\ LET a == logs[k]
              b == logs'[k]
          IN /\ b.userId = a.userId
             /\ b.grantId = a.grantId
             /\ b.grantType = a.grantType
             /\ b.eventId = a.eventId
             /\ b.createdAt = a.createdAt
             /\ \/ b.action = a.action /\ b.amountChange = a.amountChange
                \/ /\ a.action = "held"
                   /\ b.action = "consumed"
                   /\ b.amountChange = a.amountChange
                \/ /\ a.action = "held"
                   /\ b.action = "released"
                   /\ b.amountChange = Abs(a.amountChange)]_vars

\* held rows have been rewritten in place: a confirmation or a release has
\* returned and the log has no more rows than before the reservation
HeldRowRewritten ==
  \E p \in Procs :
    /\ pc[p] = "done"
    /\ call[p].op \in {"confirmHold", "releaseCredits", "deductCredits"}
    /\ ret[p].note \in {"confirmed", "released", "auto-confirmed"}
    /\ \E k \in LogIds : logs[k].action \in {"consumed", "released"}
                         /\ logs[k].eventId = call[p].eventId

\* C28: every consumed, held, expired or revoked row has amountChange < 0 and
\* every granted, released or refunded row has amountChange > 0
SignOfAmountChange ==
  \A k \in LogIds :
    /\ logs[k].action \in {"consumed", "held", "expired", "revoked"}
         => logs[k].amountChange < 0
    /\ logs[k].action \in {"granted", "released", "refunded"}
         => logs[k].amountChange > 0
    /\ logs[k].amountChange # 0

\* the log holds rows of both signs written by spending and restoring calls:
\* a consumed row and the refunded row that reverses it
BothSignsWritten ==
  \E k \in LogIds :
    /\ logs[k].action = "consumed"
    /\ RefundsOf(logs, k) # {}

\* ---------------------------------------------------------------------------
\* Read side: credits expiring soon (getExpiringCredits)
\* ---------------------------------------------------------------------------

\* the window lengths a caller asks for; one tick of the clock is one day here
ExpiringDays == 0..(MaxTime + 1)

ExpiringWhereOpen(g, userId, t, futureDate) ==
  /\ g.userId = userId
  /\ g.isActive
  /\ g.balance > 0
  /\ g.effectiveAt <= t
  /\ g.expiresAt # NULL
  /\ g.expiresAt > t
  /\ g.expiresAt < futureDate

\* the WHERE clause of the select; a comparison with a null expiresAt is not
\* true in SQL, so a never-expiring grant is not selected
ExpiringWhere(g, userId, t, futureDate) ==
  /\ g.userId = userId
  /\ g.isActive
  /\ g.balance > 0
  /\ g.effectiveAt <= t
  /\ g.expiresAt # NULL
  /\ g.expiresAt > t
  /\ g.expiresAt <= futureDate

\* the loop over the selected rows: the running total and the running earliest
RECURSIVE ExpiringLoop(_, _, _, _)
ExpiringLoop(gs, S, i, acc) ==
  IF i > Len(gs) THEN acc
  ELSE IF i \notin S THEN ExpiringLoop(gs, S, i + 1, acc)
  ELSE ExpiringLoop(gs, S, i + 1,
         [amount |-> acc.amount + gs[i].balance,
          earliestExpiration |->
            IF gs[i].expiresAt # NULL
              THEN (IF acc.earliestExpiration = NULL
                       \/ gs[i].expiresAt < acc.earliestExpiration
                      THEN gs[i].expiresAt
                      ELSE acc.earliestExpiration)
              ELSE acc.earliestExpiration])

getExpiringCredits(gs, userId, t, days) ==
  LET futureDate == t + days
      expiringGrants == {i \in DOMAIN gs :
                           ExpiringWhere(gs[i], userId, t, futureDate)}
  IN ExpiringLoop(gs, expiringGrants, 1,
                  [amount |-> 0, earliestExpiration |-> NULL])

StartExpiring(p) ==
  \E u \in Users, d \in ExpiringDays :
    Enter(p, [NoCall EXCEPT !.op = "getExpiringCredits", !.userId = u,
                            !.days = d, !.now = now],
          "x_sel")

ExpiringSelect(p) ==
  /\ At(p, "x_sel")
  /\ NoOp(p, getExpiringCredits(grants, call[p].userId, call[p].now,
                                call[p].days),
          "expiring")

ExpiringSteps(p) ==
  \/ StartExpiring(p)
  \/ ExpiringSelect(p)

\* one client: grants are created, reserved against and deactivated while the
\* clock runs, and the expiring-soon summary is read in between
ExpiringInit ==
  InitWith({"p1"}, TRUE, MaxCalls + 1, 0, {NULL, MaxTime, MaxTime + 1},
           {"e1"}, Amounts, {NONE}, {0, 1})

ExpiringNext ==
  \/ Tick
  \/ \E p \in Procs :
       \/ Return(p)
       \/ Fail(p)
       \/ CreateSteps(p)
       \/ DeactivateSteps(p)
       \/ HoldSteps(p)
       \/ ExpiringSteps(p)

ExpiringSpec == ExpiringInit /\ [][ExpiringNext]_vars

ExpiringRead(p) == pc[p] = "done" /\ call[p].op = "getExpiringCredits"

\* the usable grants of the caller whose expiry lies in the window after the
\* call's instant: lo < expiresAt, and expiresAt < hi or, when closed, = hi
InWindow(p, closed) ==
  {i \in DOMAIN grants :
     /\ Usable(grants[i], call[p].userId, call[p].now)
     /\ grants[i].expiresAt # NULL
     /\ grants[i].expiresAt > call[p].now
     /\ \/ grants[i].expiresAt < call[p].now + call[p].days
        \/ closed /\ grants[i].expiresAt = call[p].now + call[p].days}

EarliestOf(S) ==
  IF S = {} THEN NULL
  ELSE CHOOSE e \in {grants[i].expiresAt : i \in S} :
         \A i \in S : e <= grants[i].expiresAt

\* C30 (as stated): the summary counts exactly the usable grants whose expiry
\* lies strictly between now and now + withinDays, both bounds excluded, and
\* reports their total balance and their smallest expiry (null when none).
ExpiringStrictlyBetween ==
  \A p \in Procs :
    ExpiringRead(p) =>
      /\ ret[p].value.amount = SumBalance(grants, InWindow(p, FALSE))
      /\ ret[p].value.earliestExpiration = EarliestOf(InWindow(p, FALSE))

\* C30 (amended): the summary counts exactly the usable grants with
\* now < expiresAt <= now + withinDays: the lower bound is excluded, the upper
\* bound is included; grants that never expire, are expired at now, or expire
\* after now + withinDays are not counted. The amount is the sum of the counted
\* balances and earliestExpiration is the smallest counted expiry, null when
\* no grant is counted.
ExpiringUpToWindowEnd ==
  \A p \in Procs :
    ExpiringRead(p) =>
      /\ ret[p].value.amount = SumBalance(grants, InWindow(p, TRUE))
      /\ ret[p].value.earliestExpiration = EarliestOf(InWindow(p, TRUE))

\* a summary that counted a grant expiring exactly at now + withinDays, next to
\* a grant of the same user that it left out
GrantAtWindowEndCounted ==
  \E p \in Procs :
    /\ ExpiringRead(p)
    /\ ret[p].value.amount > 0
    /\ \E i \in InWindow(p, TRUE) :
         grants[i].expiresAt = call[p].now + call[p].days
    /\ \E j \in DOMAIN grants : j \notin InWindow(p, TRUE)

\* ---------------------------------------------------------------------------
\* Read side: spend in a period (getSpentThisPeriod)
\* ---------------------------------------------------------------------------

\* new Date(year, month, 1): the first instant of the month of t
MonthStart(t) == ((YearOf(t) * 12) + (MonthOf(t) - 1)) * MonthLength

\* new Date(year, month + 1, 0, 23, 59, 59, 999): the last instant of the month
MonthEnd(t) == MonthStart(t) + (MonthLength - 1)

SpentWhereWithHeld(l, userId, start, end) ==
  /\ l.userId = userId
  /\ l.action \in {"consumed", "refunded", "held"}
  /\ l.createdAt >= start
  /\ l.createdAt <= end

\* the WHERE clause of the select over the log
SpentWhere(l, userId, start, end) ==
  /\ l.userId = userId
  /\ l.action = "consumed" \/ l.action = "refunded"
  /\ l.createdAt >= start
  /\ l.createdAt <= end

\* rows without a grant type that still point at a grant
logsNeedingLookup(ls, S) ==
  {i \in S : ls[i].grantType = NONE /\ ls[i].grantId # NULL}

\* the types of the looked-up grants that still exist, by grant id
grantTypeMap(ls, gs, S) ==
  [id \in {ls[i].grantId : i \in logsNeedingLookup(ls, S)} \cap DOMAIN gs |->
     gs[id].type]

\* log.grantType || (log.grantId ? grantTypeMap.get(log.grantId) : null)
SpentType(l, map) ==
  IF l.grantType # NONE THEN l.grantType
  ELSE IF l.grantId # NULL /\ l.grantId \in DOMAIN map THEN map[l.grantId]
  ELSE NONE

NoSpent ==
  [subscriptionSpent |-> 0, lifetimeSpent |-> 0, topupSpent |-> 0,
   otherSpent |-> 0]

\* the loop over the selected rows, in table order, with its switch
RECURSIVE SpentLoop(_, _, _, _, _)
SpentLoop(ls, S, map, i, acc) ==
  IF i > Len(ls) THEN acc
  ELSE IF i \notin S THEN SpentLoop(ls, S, map, i + 1, acc)
  ELSE LET change == 0 - ls[i].amountChange
            grantType == SpentType(ls[i], map)
       IN SpentLoop(ls, S, map, i + 1,
            CASE grantType = "subscription" ->
                   [acc EXCEPT !.subscriptionSpent = @ + change]
              [] grantType = "lifetime" ->
                   [acc EXCEPT !.lifetimeSpent = @ + change]
              [] grantType = "topup" ->
                   [acc EXCEPT !.topupSpent = @ + change]
              [] OTHER -> [acc EXCEPT !.otherSpent = @ + change])

getSpentThisPeriod(ls, gs, userId, periodStart, periodEnd, t) ==
  LET start == IF periodStart # NULL THEN periodStart ELSE MonthStart(t)
      end == IF periodEnd # NULL THEN periodEnd ELSE MonthEnd(t)
      consumptionLogs == {i \in DOMAIN ls : SpentWhere(ls[i], userId, start, end)}
      spent == SpentLoop(ls, consumptionLogs,
                         grantTypeMap(ls, gs, consumptionLogs), 1, NoSpent)
  IN [subscriptionSpent |-> spent.subscriptionSpent,
      lifetimeSpent |-> spent.lifetimeSpent,
      topupSpent |-> spent.topupSpent,
      totalSpent |-> spent.subscriptionSpent + spent.lifetimeSpent
                       + spent.topupSpent + spent.otherSpent,
      periodStart |-> start,
      periodEnd |-> end]

\* the period bounds a caller passes; NULL leaves the bound to its default
SpentBounds == {NULL} \cup (0..MaxTime)

StartSpent(p) ==
  \E u \in Users, s \in SpentBounds, e \in SpentBounds :
    Enter(p, [NoCall EXCEPT !.op = "getSpentThisPeriod", !.userId = u,
                            !.startDate = s, !.endDate = e, !.now = now],
          "s_sel")

SpentResult(p) ==
  getSpentThisPeriod(logs, grants, call[p].userId, call[p].startDate,
                     call[p].endDate, call[p].now)

\* the select over the log; the grant lookup follows only when a selected row
\* lacks its grant type
SpentSelect(p) ==
  /\ At(p, "s_sel")
  /\ LET r == SpentResult(p)
         S == {i \in DOMAIN logs :
                 SpentWhere(logs[i], call[p].userId, r.periodStart,
                            r.periodEnd)}
     IN IF logsNeedingLookup(logs, S) # {}
          THEN Goto(p, "s_types", tx[p])
          ELSE NoOp(p, r, "spent")

SpentLookup(p) ==
  /\ At(p, "s_types")
  /\ NoOp(p, SpentResult(p), "spent with lookup")

SpentSteps(p) ==
  \/ StartSpent(p)
  \/ SpentSelect(p)
  \/ SpentLookup(p)

\* the grant types this report distinguishes, and one that it does not
SpentTypes == {"subscription", "lifetime", "topup", "promo"}

SpentCalls ==
  {[NoCall EXCEPT !.op = "createGrant", !.userId = u, !.type = type,
                  !.amount = MaxAmount] :
     u \in Users, type \in SpentTypes}

\* a consumed row written before the log carried the grant type; grantId is
\* NULL once its grant was deleted (creditGrantId is set null on delete)
LegacyLog(userId, grantId) ==
  [userId |-> userId, grantId |-> grantId, grantType |-> NONE,
   action |-> "consumed", amountChange |-> 0 - 1, eventId |-> "e0",
   createdAt |-> 0]

\* one client; the ledger starts with one or more grants and possibly one
\* legacy consumed row, of the first grant or of a deleted grant
SpentInit ==
  /\ \E k \in 1..MaxGrants, legacy \in {NONE, "grant", "deleted"} :
       \E cs \in [1..k -> SpentCalls] :
         /\ grants = [i \in 1..k |->
                        IF i = 1 /\ legacy = "grant"
                          THEN [NewGrant(cs[i]) EXCEPT !.balance = @ - 1]
                          ELSE NewGrant(cs[i])]
         /\ logs = [i \in 1..k |-> GrantedLog(cs[i], i)]
                     \o (CASE legacy = "grant" -> <<LegacyLog(cs[1].userId, 1)>>
                           [] legacy = "deleted" ->
                                <<LegacyLog(cs[1].userId, NULL)>>
                           [] OTHER -> <<>>)
  /\ now = 0
  /\ pc = [p \in Procs |-> "idle"]
  /\ call = [p \in Procs |-> NoCall]
  /\ tx = [p \in Procs |-> NoTx]
  /\ ret = [p \in Procs |-> NoRet]
  /\ ncalls = 0
  /\ cfg = [procs |-> {"p1"}, track |-> FALSE, maxCalls |-> MaxCalls + 1,
            expiries |-> {NULL}, events |-> {"e1"}, amounts |-> Amounts,
            sourceRefs |-> {NONE}, delays |-> {0}, callers |-> Users]
  /\ pre = [p \in Procs |-> NoHist]
  /\ prev = NoPrev
  /\ job = [p \in Procs |-> NoJob]
  /\ attribution = NoAttribution

SpentNext ==
  \/ Tick
  \/ \E p \in Procs :
       \/ Return(p)
       \/ Fail(p)
       \/ DeductSteps(p)
       \/ HoldSteps(p)
       \/ ReserveSteps(p)
       \/ RefundSteps(p)
       \/ SpentSteps(p)

SpentSpec == SpentInit /\ [][SpentNext]_vars

SpentRead(p) == pc[p] = "done" /\ call[p].op = "getSpentThisPeriod"

\* the window of a finished report contains every log row of its user
WindowHoldsAllRows(p) ==
  \A i \in DOMAIN logs :
    logs[i].userId = call[p].userId =>
      /\ ret[p].value.periodStart <= logs[i].createdAt
      /\ logs[i].createdAt <= ret[p].value.periodEnd

\* the bucket a row belongs to: its own grant type, else the type of the grant
\* it points at, else none; anything but the three named types is "other"
BucketOf(l) ==
  LET type == IF l.grantType # NONE THEN l.grantType
              ELSE IF l.grantId \in DOMAIN grants THEN grants[l.grantId].type
              ELSE NONE
  IN IF type \in {"subscription", "lifetime", "topup"} THEN type ELSE "other"

\* consumed amounts minus refunded amounts over the rows R of the log
NetSpent(R) ==
  SumAbs(logs, {i \in R : logs[i].action = "consumed"})
    - SumChange(logs, {i \in R : logs[i].action = "refunded"})

UserRowsOf(userId) == {i \in DOMAIN logs : logs[i].userId = userId}

\* C29: for a window that contains all of a user's log rows, totalSpent is the
\* sum of |amountChange| over the consumed rows minus the sum of amountChange
\* over the refunded rows; each consumed or refunded row is counted in exactly
\* one of the buckets subscription, lifetime, topup and other; held and
\* released rows contribute nothing, so an event that was only held, or held
\* and released, adds 0, a held and confirmed event adds its consumed rows
\* once, and a refunded event nets 0.
SpendCountsEachReservationOnce ==
  \A p \in Procs :
    (SpentRead(p) /\ WindowHoldsAllRows(p)) =>
      LET r == ret[p].value
          R == UserRowsOf(call[p].userId)
          In(b) == {i \in R : BucketOf(logs[i]) = b}
          Of(e) == {i \in R : logs[i].eventId = e}
      IN /\ r.totalSpent = NetSpent(R)
         /\ r.subscriptionSpent = NetSpent(In("subscription"))
         /\ r.lifetimeSpent = NetSpent(In("lifetime"))
         /\ r.topupSpent = NetSpent(In("topup"))
         /\ r.totalSpent - (r.subscriptionSpent + r.lifetimeSpent
                              + r.topupSpent) = NetSpent(In("other"))
         /\ \A e \in EventIds :
              /\ (\E i \in Of(e) : logs[i].action = "refunded") =>
                   NetSpent(Of(e)) = 0
              /\ (\A i \in Of(e) : logs[i].action \in {"held", "released"}) =>
                   NetSpent(Of(e)) = 0
         /\ r.totalSpent
              = SumAbs(logs, {i \in R : /\ logs[i].action = "consumed"
                                        /\ ~ \E j \in R :
                                              /\ logs[j].action = "refunded"
                                              /\ logs[j].eventId = logs[i].eventId})

\* a report over the whole log that resolved a legacy row through its grant
\* while the log also holds a refunded charge and the report is not zero
LegacyRowAndRefundReported ==
  \E p \in Procs :
    /\ SpentRead(p)
    /\ WindowHoldsAllRows(p)
    /\ ret[p].note = "spent with lookup"
    /\ ret[p].value.totalSpent = 1
    /\ \E i \in DOMAIN logs : logs[i].action = "refunded"

\* ---------------------------------------------------------------------------
\* Read side: balance breakdown (getBalance) and hasEnoughCredits
\* ---------------------------------------------------------------------------

BalanceWhereAnyExpiry(g, userId, t) ==
  /\ g.userId = userId
  /\ g.isActive
  /\ g.balance > 0
  /\ g.effectiveAt <= t

\* the WHERE clause of getBalance
BalanceWhere(g, userId, t) ==
  /\ g.userId = userId
  /\ g.isActive
  /\ g.balance > 0
  /\ g.effectiveAt <= t
  /\ (g.expiresAt = NULL \/ g.expiresAt > t)

NoBalance ==
  [subscriptionBalance |-> 0, subscriptionExpiresAt |-> NULL,
   lifetimeBalance |-> 0, topupBalance |-> 0, topupExpiringBalance |-> 0,
   topupNonExpiringBalance |-> 0, topupExpiresAt |-> NULL, otherBalance |-> 0]

\* !earliest || expiresAt < earliest
Earlier(expiresAt, earliest) ==
  IF earliest = NULL \/ expiresAt < earliest THEN expiresAt ELSE earliest

\* the loop over the selected grants, in table order, with its switch
RECURSIVE BalanceLoop(_, _, _, _)
BalanceLoop(gs, S, i, acc) ==
  IF i > Len(gs) THEN acc
  ELSE IF i \notin S THEN BalanceLoop(gs, S, i + 1, acc)
  ELSE LET grant == gs[i] IN
       BalanceLoop(gs, S, i + 1,
         CASE grant.type = "subscription" ->
                [acc EXCEPT !.subscriptionBalance = @ + grant.balance,
                            !.subscriptionExpiresAt =
                               IF grant.expiresAt # NULL
                                 THEN Earlier(grant.expiresAt, @) ELSE @]
           [] grant.type = "lifetime" ->
                [acc EXCEPT !.lifetimeBalance = @ + grant.balance]
           [] grant.type = "topup" ->
                IF grant.expiresAt # NULL
                  THEN [acc EXCEPT !.topupBalance = @ + grant.balance,
                                   !.topupExpiringBalance = @ + grant.balance,
                                   !.topupExpiresAt = Earlier(grant.expiresAt, @)]
                  ELSE [acc EXCEPT !.topupBalance = @ + grant.balance,
                                   !.topupNonExpiringBalance = @ + grant.balance]
           [] OTHER -> [acc EXCEPT !.otherBalance = @ + grant.balance])

getBalance(gs, userId, t) ==
  LET activeGrants == {i \in DOMAIN gs : BalanceWhere(gs[i], userId, t)}
      b == BalanceLoop(gs, activeGrants, 1, NoBalance)
  IN [total |-> b.subscriptionBalance + b.lifetimeBalance + b.topupBalance
                  + b.otherBalance,
      subscription |-> [balance |-> b.subscriptionBalance,
                        expiresAt |-> b.subscriptionExpiresAt],
      lifetime |-> [balance |-> b.lifetimeBalance, expiresAt |-> NULL],
      topup |-> [balance |-> b.topupBalance,
                 expiringBalance |-> b.topupExpiringBalance,
                 expiresAt |-> b.topupExpiresAt,
                 nonExpiringBalance |-> b.topupNonExpiringBalance],
      other |-> [balance |-> b.otherBalance]]

StartBalance(p) ==
  \E u \in Users :
    Enter(p, [NoCall EXCEPT !.op = "getBalance", !.userId = u, !.now = now],
          "b_sel")

BalanceSelect(p) ==
  /\ At(p, "b_sel")
  /\ NoOp(p, getBalance(grants, call[p].userId, call[p].now), "balance")

BalanceSteps(p) ==
  \/ StartBalance(p)
  \/ BalanceSelect(p)

\* the WHERE clause of hasEnoughCredits
EnoughWhere(g, userId, t) ==
  /\ g.userId = userId
  /\ g.isActive
  /\ g.balance > 0
  /\ g.effectiveAt <= t
  /\ (g.expiresAt = NULL \/ g.expiresAt > t)

\* grants.reduce((sum, g) => sum + g.balance, 0) >= requiredAmount
hasEnoughCredits(gs, userId, t, requiredAmount) ==
  LET rows == {i \in DOMAIN gs : EnoughWhere(gs[i], userId, t)}
      totalAvailable == SumBalance(gs, rows)
  IN totalAvailable >= requiredAmount

StartEnough(p) ==
  \E u \in Users, amount \in cfg.amounts :
    Enter(p, [NoCall EXCEPT !.op = "hasEnoughCredits", !.userId = u,
                            !.amount = amount, !.now = now],
          "h_sel")

EnoughSelect(p) ==
  /\ At(p, "h_sel")
  /\ NoOp(p, hasEnoughCredits(grants, call[p].userId, call[p].now,
                              call[p].amount),
          "enough")

EnoughSteps(p) ==
  \/ StartEnough(p)
  \/ EnoughSelect(p)

\* getActiveGrants: the ids of the rows its select returns
getActiveGrants(gs, userId, t) ==
  {i \in DOMAIN gs : /\ gs[i].userId = userId
                     /\ gs[i].isActive
                     /\ gs[i].balance > 0
                     /\ gs[i].effectiveAt <= t
                     /\ (gs[i].expiresAt = NULL \/ gs[i].expiresAt > t)}

StartActive(p) ==
  \E u \in Users :
    Enter(p, [NoCall EXCEPT !.op = "getActiveGrants", !.userId = u,
                            !.now = now],
          "g_sel")

ActiveSelect(p) ==
  /\ At(p, "g_sel")
  /\ NoOp(p, getActiveGrants(grants, call[p].userId, call[p].now), "active")

ActiveSteps(p) ==
  \/ StartActive(p)
  \/ ActiveSelect(p)

BalanceCalls ==
  {[NoCall EXCEPT !.op = "createGrant", !.userId = u, !.type = type,
                  !.amount = amount, !.expiresAt = expiresAt] :
     u \in Users, type \in SpentTypes, amount \in Amounts,
     expiresAt \in {NULL, MaxTime}}

\* one client; the ledger starts with grants of every reported type, expiring
\* or not; holds, deactivations and the clock change what is usable, and the
\* reads and a deduction follow
BalanceInit ==
  /\ \E k \in 0..MaxGrants :
       \E cs \in [1..k -> BalanceCalls] :
         /\ grants = [i \in 1..k |-> NewGrant(cs[i])]
         /\ logs = [i \in 1..k |-> GrantedLog(cs[i], i)]
  /\ now = 0
  /\ pc = [p \in Procs |-> "idle"]
  /\ call = [p \in Procs |-> NoCall]
  /\ tx = [p \in Procs |-> NoTx]
  /\ ret = [p \in Procs |-> NoRet]
  /\ ncalls = 0
  /\ cfg = [procs |-> {"p1"}, track |-> TRUE, maxCalls |-> MaxCalls + 1,
            expiries |-> {NULL, MaxTime}, events |-> {"e1"},
            amounts |-> Amounts, sourceRefs |-> {NONE}, delays |-> {0},
            callers |-> Users]
  /\ pre = [p \in Procs |-> NoHist]
  /\ prev = NoPrev
  /\ job = [p \in Procs |-> NoJob]
  /\ attribution = NoAttribution

BalanceNext ==
  \/ Tick
  \/ \E p \in Procs :
       \/ Return(p)
       \/ Fail(p)
       \/ DeactivateSteps(p)
       \/ HoldSteps(p)
       \/ DeductSteps(p)
       \/ BalanceSteps(p)
       \/ EnoughSteps(p)
       \/ ActiveSteps(p)

BalanceSpec == BalanceInit /\ [][BalanceNext]_vars

\* a deduction for an event without rows that ran right after a
\* hasEnoughCredits of the same user and amount, at the same instant
DeductAfterEnough(p) ==
  /\ pc[p] = "done"
  /\ call[p].op = "deductCredits"
  /\ ret[p].status # "StoreError"
  /\ prev.call.op = "hasEnoughCredits"
  /\ prev.call.userId = call[p].userId
  /\ prev.call.amount = call[p].amount
  /\ prev.call.now = call[p].now
  /\ \A i \in DOMAIN pre[p].logs :
       ~(pre[p].logs[i].userId = call[p].userId
         /\ pre[p].logs[i].eventId = call[p].eventId)

\* C31: with no operation in flight, getBalance's total is the sum of its four
\* partitions, the topup balance is its expiring plus its non-expiring part, and
\* the total is the sum of the balances of the user's usable grants;
\* hasEnoughCredits(user, n) is true exactly when that sum is at least n, and a
\* deductCredits(user, n) for an event without rows run in that state succeeds
\* exactly when hasEnoughCredits answered true.
ReadSideAgreesWithWriteSide ==
  \A p \in Procs :
    LET c == call[p]
        usableTotal == SumBalance(grants, UsableIds(grants, c.userId, c.now))
    IN /\ (pc[p] = "done" /\ c.op = "getBalance") =>
            LET b == ret[p].value
            IN /\ b.total = b.subscription.balance + b.lifetime.balance
                              + b.topup.balance + b.other.balance
               /\ b.topup.balance = b.topup.expiringBalance
                                      + b.topup.nonExpiringBalance
               /\ b.total = usableTotal
       /\ (pc[p] = "done" /\ c.op = "hasEnoughCredits") =>
            (ret[p].value <=> usableTotal >= c.amount)
       /\ DeductAfterEnough(p) =>
            ((ret[p].status = "ok") <=> prev.ret.value)

\* a deduction refused right after hasEnoughCredits answered false although the
\* user's grants hold enough credits, some of them not usable
RefusedAfterNotEnough ==
  \E p \in Procs :
    /\ DeductAfterEnough(p)
    /\ ~prev.ret.value
    /\ ret[p].status = "InsufficientCredits"
    /\ TotalBalance(grants, call[p].userId) >= call[p].amount

\* the ledger with the balance of every inactive grant taken away
WithoutInactive(gs) ==
  [i \in DOMAIN gs |-> IF gs[i].isActive THEN gs[i] ELSE [gs[i] EXCEPT !.balance = 0]]

Finished(p, ops) == pc[p] = "done" /\ call[p].op \in ops

\* C32: deactivateGrant sets isActive = false on the named grant, leaves its
\* balance and amount and every other grant unchanged and writes no log row;
\* afterwards the grant is not among getActiveGrants, adds nothing to
\* getBalance, and no deduction or hold changes it or writes a row for it.
DeactivateChangesOnlyFlag ==
  \A p \in Procs :
    LET c == call[p] IN
    /\ (Finished(p, {"deactivateGrant"}) /\ ret[p].note = "inactive") =>
         /\ grants = [pre[p].grants EXCEPT ![c.grantId].isActive = FALSE]
         /\ logs = pre[p].logs
    /\ Finished(p, {"getActiveGrants"}) =>
         \A i \in DOMAIN grants : ~grants[i].isActive => i \notin ret[p].value
    /\ Finished(p, {"getBalance"}) =>
         ret[p].value = getBalance(WithoutInactive(grants), c.userId, c.now)
    /\ Finished(p, {"deductCredits", "holdCredits"}) =>
         \A i \in DOMAIN pre[p].grants :
           ~pre[p].grants[i].isActive =>
             /\ grants[i] = pre[p].grants[i]
             /\ \A k \in DOMAIN logs :
                  k > Len(pre[p].logs) => logs[k].grantId # i

\* a deduction or hold that was refused right after the deactivation of a
\* grant whose balance would have covered it
DeactivatedGrantNotSpent ==
  \E p \in Procs :
    /\ Finished(p, {"deductCredits", "holdCredits"})
    /\ ret[p].status = "InsufficientCredits"
    /\ prev.call.op = "deactivateGrant"
    /\ prev.ret.note = "inactive"
    /\ prev.call.grantId \in DOMAIN grants
    /\ grants[prev.call.grantId].userId = call[p].userId
    /\ grants[prev.call.grantId].balance >= call[p].amount
    /\ grants[prev.call.grantId].expiresAt = NULL

\* grants of the user and type created in the calendar month
GrantsInMonth(gs, userId, type, year, month) ==
  {i \in DOMAIN gs : /\ gs[i].userId = userId
                     /\ gs[i].type = type
                     /\ YearOf(gs[i].createdAt) = year
                     /\ MonthOf(gs[i].createdAt) = month}

\* C33: the monthly job creates a grant for a user only if the user is not
\* banned, belongs to the free, lifetime or yearly group by the latest
\* qualifying payment (a monthly subscriber belongs to none), the grant is of
\* the group's type (promo, lifetime, subscription), and the user has no grant
\* of that type created within the job's calendar month.
SchedulerEligibility ==
  [][\A p \in Procs :
       (job[p].active /\ pc[p] # pc'[p] /\ Len(grants') > Len(grants)) =>
         LET g == grants'[Len(grants')]
             row == cfg.users[g.userId]
         IN /\ ~row.banned
            /\ row.plan \in {"free", "lifetime", "yearly"}
            /\ g.type = ExpectedType(row.plan)
            /\ GrantsInMonth(grants, g.userId, g.type, job[p].year,
                             job[p].month) = {}]_vars

\* ---------------------------------------------------------------------------
\* One run of the monthly job over two users
\* ---------------------------------------------------------------------------

BatchUsers == {"u1", "u2"}

\* one run of the job; the first user may hold a grant issued earlier by
\* another path
BatchInit ==
  /\ \E k \in 0..(MaxGrants - 1) :
       \E cs \in [1..k -> InitCalls({NULL, MaxTime})],
          users \in [BatchUsers -> UserRows], expireDays \in {0, 1} :
         /\ grants = [i \in 1..k |-> NewGrant(cs[i])]
         /\ logs = [i \in 1..k |-> GrantedLog(cs[i], i)]
         /\ cfg = [procs |-> {"p1"}, track |-> FALSE, maxCalls |-> 1,
                   expiries |-> {NULL, MaxTime}, events |-> {}, amounts |-> {1},
                   sourceRefs |-> {NONE}, delays |-> {0},
                   callers |-> Users, users |-> users,
                   credits |-> [amount |-> 1, expireDays |-> expireDays],
                   dryRuns |-> BOOLEAN, seeded |-> k]
  /\ now = 0
  /\ pc = [p \in Procs |-> "idle"]
  /\ call = [p \in Procs |-> NoCall]
  /\ tx = [p \in Procs |-> NoTx]
  /\ ret = [p \in Procs |-> NoRet]
  /\ ncalls = 0
  /\ pre = [p \in Procs |-> NoHist]
  /\ prev = NoPrev
  /\ job = [p \in Procs |-> NoJob]
  /\ attribution = NoAttribution

\* the unique violation handled by createGrant's catch needs a second writer
\* and does not occur in a single run
BatchNext ==
  \/ Tick
  \/ \E p \in Procs :
       \/ Return(p)
       \/ Fail(p)
       \/ JobSteps(p)
       \/ ExpireScan(p)
       \/ ExpireLoop(p)
       \/ CreateCheck(p)
       \/ CreateInsert(p)
       \/ CreateLog(p)

BatchSpec == BatchInit /\ [][BatchNext]_vars

\* the users the run has to grant: not banned, in a group, and without a grant
\* of the group's type issued in the month by another path
BatchEligible(p) ==
  {u \in DOMAIN cfg.users :
     LET row == cfg.users[u]
         type == ExpectedType(row.plan)
     IN /\ ~row.banned
        /\ type # NONE
        /\ OtherGrantsInMonth(grants, u, type, job[p].year, job[p].month,
                              JobRef("monthly_" \o row.plan, u, job[p].year,
                                     job[p].month)) = {}}

\* the eligible users that hold the run's grant
BatchGranted(p) ==
  {u \in BatchEligible(p) :
     GrantsByRef(grants, u, ExpectedType(cfg.users[u].plan),
                 JobRef("monthly_" \o cfg.users[u].plan, u, job[p].year,
                        job[p].month)) # {}}

JobFinished(p) ==
  /\ pc[p] = "done"
  /\ call[p].op = "grantMonthlyCredits"
  /\ ~job[p].dryRun

\* C34: when createGrant fails for a user during batch granting, the run still
\* attempts every remaining user of the batch and of the later groups, so that
\* at its end each eligible user either holds the grant or was reported as
\* failed; a failed user is not counted as processed; and the run returns
\* without raising the error.
FailureIsolation ==
  \A p \in Procs :
    JobFinished(p) =>
      /\ job[p].errors > 0 => ret[p].status = "ok"
      /\ ret[p].status = "ok" =>
           /\ ret[p].value = Cardinality(BatchGranted(p))
           /\ job[p].errors
                = Cardinality(BatchEligible(p) \ BatchGranted(p))

\* a run in which the grant of the free user failed and a user of a later
\* group was granted afterwards
LaterGroupGrantedAfterFailure ==
  \E p \in Procs :
    /\ JobFinished(p)
    /\ ret[p].status = "ok"
    /\ job[p].errors = 1
    /\ job[p].counts[1] = 0
    /\ ret[p].value = 1
    /\ \E u \in BatchEligible(p) : cfg.users[u].plan = "free"

\* the ledger sum in which a released row counts nothing
LedgerWithoutReleased(ls, userId) ==
  SumChange(ls, UserLogs(ls, userId, {"granted", "refunded"}))
    - SumAbs(ls, UserLogs(ls, userId, {"consumed", "expired", "revoked", "held"}))

OutcomeInit ==
  InitWith(Procs, FALSE, MaxCalls + 1, 1, {NULL}, {"e1"}, Amounts, {NONE}, {0})

OutcomeNext ==
  \/ HoldSteps("p1")
  \/ ReleaseSteps("p1")
  \/ ConfirmSteps("p2")
  \/ DeductSteps("p2")
  \/ DeductConfirm("p2")
  \/ \E p \in Procs :
       \/ Return(p)
       \/ Fail(p)

OutcomeSpec == OutcomeInit /\ [][OutcomeNext]_vars

Quiescent == \A p \in Procs : pc[p] = "idle"

ConsumedOf(g) == {i \in DOMAIN logs : logs[i].grantId = g /\ logs[i].action = "consumed"}

\* C36: when a confirmation (confirmHold, or deductCredits confirming the hold)
\* and releaseCredits run concurrently for the same held event, the outcome is
\* either the rows consumed with the balances as the hold left them, or the
\* rows released with the balances restored; rows consumed together with
\* restored balances do not occur: a grant with consumed rows holds at most its
\* amount minus the consumed amounts.
ReservationHasOneOutcome ==
  Quiescent =>
    \A g \in DOMAIN grants :
      ConsumedOf(g) # {} =>
        grants[g].balance <= grants[g].amount - SumAbs(logs, ConsumedOf(g))

\* ---------------------------------------------------------------------------
\* Reserving again after a release
\* ---------------------------------------------------------------------------

\* one client reserving and releasing, up to twice each
RepeatInit ==
  InitWith({"p1"}, TRUE, MaxCalls + 2, 1, {NULL}, {"e1"}, Amounts, {NONE}, {0})

RepeatNext ==
  \E p \in Procs :
    \/ Return(p)
    \/ Fail(p)
    \/ HoldSteps(p)
    \/ ReleaseSteps(p)

RepeatSpec == RepeatInit /\ [][RepeatNext]_vars

HeldOf(ls, userId, eventId, g) ==
  {i \in LogsOf(ls, userId, eventId, "held") : ls[i].grantId = g}

\* C37: whenever an event has held rows, also after hold, release and hold
\* again with the same eventId on the same grant, releaseCredits for the event
\* completes without error, leaves the event without held rows and has
\* increased each grant's balance by the amount held from it.
HoldCanBeReleased ==
  \A p \in Procs :
    (/\ pc[p] = "done"
     /\ call[p].op = "releaseCredits"
     /\ ret[p].status # "StoreError"
     /\ LogsOf(pre[p].logs, call[p].userId, call[p].eventId, "held") # {}) =>
       /\ ret[p].status = "ok"
       /\ LogsOf(logs, call[p].userId, call[p].eventId, "held") = {}
       /\ \A g \in DOMAIN grants :
            grants[g].balance
              = pre[p].grants[g].balance
                  + SumAbs(pre[p].logs,
                           HeldOf(pre[p].logs, call[p].userId, call[p].eventId, g))

\* ---------------------------------------------------------------------------
\* Retrying a charged event
\* ---------------------------------------------------------------------------

\* one client charging (by a deduction, or a hold and its confirmation),
\* refunding and retrying, three calls in a row
RechargeInit ==
  InitWith({"p1"}, TRUE, MaxCalls + 1, 1, {NULL}, {"e1"}, Amounts, {NONE}, {0})

RechargeNext ==
  \E p \in Procs :
    \/ Return(p)
    \/ Fail(p)
    \/ DeductSteps(p)
    \/ DeductConfirm(p)
    \/ HoldSteps(p)
    \/ ConfirmSteps(p)
    \/ RefundSteps(p)

RechargeSpec == RechargeInit /\ [][RechargeNext]_vars

\* a finished deduction or hold for an event that had a consumed row
RetryOfCharged(p) ==
  /\ Finished(p, {"deductCredits", "holdCredits"})
  /\ LogsOf(pre[p].logs, call[p].userId, call[p].eventId, "consumed") # {}

RestoreInit ==
  InitWith({"p1"}, TRUE, MaxCalls + 2, 1, {MaxTime}, {"e1"}, Amounts,
           {NONE}, {0})

RestoreNext ==
  \/ Tick
  \/ \E p \in Procs :
       \/ Return(p)
       \/ Fail(p)
       \/ DeductSteps(p)
       \/ HoldSteps(p)
       \/ ReleaseSteps(p)
       \/ RefundSteps(p)
       \/ ExpireSteps(p)
       \/ RevokeSteps(p)
       \/ DeactivateSteps(p)

RestoreSpec == RestoreInit /\ [][RestoreNext]_vars

\* the grant is inactive (revoked or deactivated) or past its expiresAt
OutOfUse(g, t) ==
  \/ ~g.isActive
  \/ g.expiresAt # NULL /\ g.expiresAt <= t

\* a release or refund that restored something has finished
RestoreDone(p) ==
  /\ pc[p] = "done"
  /\ \/ call[p].op = "releaseCredits" /\ ret[p].note = "released"
     \/ call[p].op = "refundCredits" /\ ret[p].note = "refunded"

\* the rows of the call's event that named grant g when the call began, held
\* ones for a release and consumed ones for a refund
RowsRestored(p, g) ==
  {i \in LogsOf(pre[p].logs, call[p].userId, call[p].eventId,
                IF call[p].op = "releaseCredits" THEN "held" ELSE "consumed") :
     pre[p].logs[i].grantId = g}

\* C39: releaseCredits and refundCredits add, for each held or consumed row of
\* the event, |amountChange| to the balance of the grant the row names and
\* change nothing else of any grant, also when that grant is inactive or past
\* its expiresAt; the restored credits are then outside the usable balance,
\* and a later processExpiredGrants empties an active grant past its expiry
\* again, with an expired row of the restored balance.
RestoreToOriginalGrant ==
  \A p \in Procs :
    /\ RestoreDone(p) =>
         /\ DOMAIN grants = DOMAIN pre[p].grants
         /\ \A g \in DOMAIN grants :
              /\ grants[g]
                   = [pre[p].grants[g] EXCEPT
                        !.balance = @ + SumAbs(pre[p].logs, RowsRestored(p, g))]
              /\ (RowsRestored(p, g) # {} /\ OutOfUse(pre[p].grants[g], now)) =>
                   g \notin UsableIds(grants, call[p].userId, now)
    /\ (Finished(p, {"processExpiredGrants"}) /\ ret[p].status = "ok") =>
         \A g \in DOMAIN grants :
           (/\ pre[p].grants[g].userId = call[p].userId
            /\ pre[p].grants[g].isActive
            /\ pre[p].grants[g].balance > 0
            /\ Expired(pre[p].grants[g], call[p].userId, call[p].now)) =>
             /\ grants[g].balance = 0
             /\ \E k \in DOMAIN logs :
                  /\ k > Len(pre[p].logs)
                  /\ logs[k].grantId = g
                  /\ logs[k].action = "expired"
                  /\ logs[k].amountChange = 0 - pre[p].grants[g].balance
    /\ Finished(p, {"processExpiredGrants"}) =>
         \A g \in DOMAIN grants :
           ~pre[p].grants[g].isActive => grants[g] = pre[p].grants[g]

\* C39 as stated: whatever made the grant unusable, credits that a release
\* or refund put back on it are written off by the next processExpiredGrants
\* with an expired row.
RestoredWrittenOffWhateverState ==
  \A p \in Procs :
    (/\ Finished(p, {"processExpiredGrants"})
     /\ ret[p].status = "ok"
     /\ prev.call.op \in {"releaseCredits", "refundCredits"}
     /\ prev.ret.note \in {"released", "refunded"}) =>
      \A g \in DOMAIN grants :
        (/\ OutOfUse(prev.grants[g], prev.call.now)
         /\ prev.grants[g].balance < pre[p].grants[g].balance) =>
          /\ grants[g].balance = 0
          /\ \E k \in DOMAIN logs :
               /\ k > Len(pre[p].logs)
               /\ logs[k].grantId = g
               /\ logs[k].action = "expired"

\* the sweep wrote off credits that a release or refund had just put back on
\* a grant past its expiry
RestoredCreditsWrittenOff ==
  \E p \in Procs :
    /\ Finished(p, {"processExpiredGrants"})
    /\ ret[p].status = "ok"
    /\ ret[p].value > 0
    /\ prev.call.op \in {"releaseCredits", "refundCredits"}
    /\ prev.ret.note \in {"released", "refunded"}
    /\ \E g \in DOMAIN grants :
         /\ OutOfUse(prev.grants[g], prev.call.now)
         /\ prev.grants[g].balance < pre[p].grants[g].balance
         /\ grants[g].balance = 0

\* ---------------------------------------------------------------------------
\* Two users sharing an event id
\* ---------------------------------------------------------------------------

IsolationUsers == {"u1", "u2"}

\* parameters of the createGrant calls that built the two users' ledger
IsolationCalls ==
  {[NoCall EXCEPT !.op = "createGrant", !.userId = u,
                  !.type = "subscription", !.amount = amount,
                  !.expiresAt = MaxTime] :
     u \in IsolationUsers, amount \in Amounts}

IsolationInit ==
  /\ \E k \in 1..MaxGrants :
       \E cs \in [1..k -> IsolationCalls] :
         /\ grants = [i \in 1..k |-> NewGrant(cs[i])]
         /\ logs = [i \in 1..k |-> GrantedLog(cs[i], i)]
  /\ now = 0
  /\ pc = [p \in Procs |-> "idle"]
  /\ call = [p \in Procs |-> NoCall]
  /\ tx = [p \in Procs |-> NoTx]
  /\ ret = [p \in Procs |-> NoRet]
  /\ ncalls = 0
  /\ cfg = [procs |-> {"p1"}, track |-> TRUE, maxCalls |-> MaxCalls + 1,
            expiries |-> {MaxTime}, events |-> {"e1"},
            amounts |-> Amounts, sourceRefs |-> {NONE}, delays |-> {0},
            callers |-> IsolationUsers]
  /\ pre = [p \in Procs |-> NoHist]
  /\ prev = NoPrev
  /\ job = [p \in Procs |-> NoJob]
  /\ attribution = NoAttribution

IsolationNext ==
  \/ Tick
  \/ \E p \in Procs :
       \/ Return(p)
       \/ Fail(p)
       \/ DeductSteps(p)
       \/ DeductConfirm(p)
       \/ HoldSteps(p)
       \/ ConfirmSteps(p)
       \/ ReleaseSteps(p)
       \/ RefundSteps(p)
       \/ ExpireSteps(p)

IsolationSpec == IsolationInit /\ [][IsolationNext]_vars

IsolatedOps ==
  {"deductCredits", "holdCredits", "confirmHold", "releaseCredits",
   "refundCredits", "processExpiredGrants"}

\* the caller had no row of the call's event when the call began
FreshFor(p) ==
  \A i \in DOMAIN pre[p].logs :
    ~(pre[p].logs[i].userId = call[p].userId
      /\ pre[p].logs[i].eventId = call[p].eventId)

\* another user had a row of the call's event, of the given actions, when
\* the call began
OtherUserHas(p, actions) ==
  \E i \in DOMAIN pre[p].logs :
    /\ pre[p].logs[i].userId # call[p].userId
    /\ pre[p].logs[i].eventId = call[p].eventId
    /\ pre[p].logs[i].action \in actions

\* C40: a call of deductCredits, holdCredits, confirmHold, releaseCredits,
\* refundCredits or processExpiredGrants for one user leaves every grant and
\* every log row of another user as it was and writes rows of its own user
\* only; its outcome does not depend on the other user's rows: a charge or
\* hold of an event the caller has no row of, with enough usable credits, is
\* carried out also when another user has rows of the same event id, and a
\* confirm, release or refund then finds nothing of the caller's.
CrossUserIsolation ==
  \A p \in Procs :
    LET c == call[p]
        h == pre[p]
        usable == SumBalance(h.grants, UsableIds(h.grants, c.userId, now))
    IN (pc[p] # "idle" /\ c.op \in IsolatedOps) =>
         /\ DOMAIN grants = DOMAIN h.grants
         /\ \A g \in DOMAIN grants :
              h.grants[g].userId # c.userId => grants[g] = h.grants[g]
         /\ \A i \in DOMAIN logs :
              IF i \in DOMAIN h.logs /\ h.logs[i].userId # c.userId
                THEN logs[i] = h.logs[i]
                ELSE logs[i].userId = c.userId
         /\ (/\ pc[p] = "done"
             /\ c.op \in {"deductCredits", "holdCredits"}
             /\ FreshFor(p)
             /\ usable >= c.amount
             /\ ret[p].status # "StoreError") =>
              /\ ret[p].status = "ok"
              /\ ret[p].note = (IF c.op = "deductCredits" THEN "deducted"
                                                         ELSE "held")
              /\ SumBalance(grants, UserGrants(grants, c.userId))
                   = SumBalance(h.grants, UserGrants(h.grants, c.userId)) - c.amount
         /\ (/\ pc[p] = "done"
             /\ c.op \in {"confirmHold", "releaseCredits", "refundCredits"}
             /\ FreshFor(p)) =>
              /\ grants = h.grants
              /\ logs = h.logs

\* a user was charged for an event id that the other user had already been
\* charged for
SameEventChargedForBoth ==
  \E p \in Procs :
    /\ pc[p] = "done"
    /\ call[p].op = "deductCredits"
    /\ ret[p].note = "deducted"
    /\ FreshFor(p)
    /\ OtherUserHas(p, {"consumed"})

====
